---- MODULE Spec2Model ----
(***************************************************************************)
(* Model of libipset's argument parsers                                    *)
(* (extensions/ipset-5/libipset/parse.c).                                  *)
(*                                                                         *)
(* C strings are sequences of one-character strings; a char pointer into  *)
(* a string is a 1-based index, and 0 stands for NULL.  A parser is an     *)
(* operator from (session, option, string) to [ret, s]: its return value  *)
(* and the session it leaves behind.  The session holds the data blob     *)
(* (values, set-bits, family) and the error/warning report.                *)
(***************************************************************************)
EXTENDS Integers, Sequences, FiniteSets, TLC

VARIABLES
    session,    \* struct ipset_session: [data, report]
    prev,       \* the session as it was before the last call
    call,       \* the last call: [fn, opt, str, arg]
    ret,        \* what the last call returned
    calls,      \* field parsers invoked by the last ipset_parse_elem, in
                \* order; the number a numeric parser wrote through ret
    ncalls      \* number of parser calls made on this session

vars == <<session, prev, call, ret, calls, ncalls>>

(***************************************************************************)
(* Bounds of the model.                                                    *)
(***************************************************************************)
MaxCalls == 2       \* parser calls per session (one command)
MaxStrLen == 4      \* length of the strings given to ipset_strchr
MaxElemCalls == 1   \* ipset_parse_elem calls per session
MaxParts == 4       \* separator-delimited parts of an element string

(***************************************************************************)
(* Strings.                                                                *)
(***************************************************************************)
NULL == 0

Tail2(s, i) == SubSeq(s, i, Len(s))         \* the C string starting at s + i - 1
Head2(s, i) == SubSeq(s, 1, i - 1)          \* the C string cut by s[i] = '\0'

STREQ(a, b) == a = b

RECURSIVE strchr(_, _, _)
strchr(s, c, i) ==
    IF i > Len(s) THEN NULL
    ELSE IF s[i] = c THEN i
    ELSE strchr(s, c, i + 1)

\* The positions of c in str, and those that are neither first nor last.
Interior(str, c) == {i \in 2..(Len(str) - 1) : str[i] = c}
Occurs(str, c) == {i \in 1..Len(str) : str[i] = c}

IPSET_CIDR_SEPARATOR == <<"/">>
IPSET_RANGE_SEPARATOR == <<"-">>
IPSET_ELEM_SEPARATOR == <<",">>
IPSET_NAME_SEPARATOR == <<",">>
IPSET_PROTO_SEPARATOR == <<":">>

\* parse.c:42-57.  For each character of sep in turn: the first occurrence
\* in str, unless str begins or ends with that character.
RECURSIVE ipset_strchr(_, _)
ipset_strchr(str, sep) ==
    IF sep = <<>> THEN NULL
    ELSE LET match == strchr(str, sep[1], 1) IN
         IF match # NULL /\ str[1] # sep[1] /\ str[Len(str)] # sep[1]
         THEN match
         ELSE ipset_strchr(str, Tail(sep))

cidr_separator(str) == ipset_strchr(str, IPSET_CIDR_SEPARATOR)
range_separator(str) == ipset_strchr(str, IPSET_RANGE_SEPARATOR)
elem_separator(str) == ipset_strchr(str, IPSET_ELEM_SEPARATOR)
name_separator(str) == ipset_strchr(str, IPSET_NAME_SEPARATOR)
proto_separator(str) == ipset_strchr(str, IPSET_PROTO_SEPARATOR)

(***************************************************************************)
(* The session and its data blob.                                          *)
(***************************************************************************)
Opts == {"IPSET_SETNAME", "IPSET_OPT_TYPENAME", "IPSET_OPT_FAMILY",
         "IPSET_OPT_IP", "IPSET_OPT_IP_TO", "IPSET_OPT_CIDR",
         "IPSET_OPT_PORT", "IPSET_OPT_PORT_TO", "IPSET_OPT_TIMEOUT",
         "IPSET_OPT_NETMASK", "IPSET_OPT_ETHER", "IPSET_OPT_NAME",
         "IPSET_OPT_NAMEREF", "IPSET_OPT_IP2", "IPSET_OPT_CIDR2",
         "IPSET_OPT_PROTO", "IPSET_OPT_BEFORE", "IPSET_OPT_SETNAME2",
         "IPSET_OPT_TYPE", "IPSET_OPT_HASHSIZE", "IPSET_OPT_PROBES",
         "IPSET_OPT_GC"}

AF_UNSPEC == "AF_UNSPEC"
AF_INET == "AF_INET"
AF_INET6 == "AF_INET6"

\* A value is kept as <<v>>, and <<>> while the option was never assigned.
EmptyData ==
    [val |-> [o \in Opts |-> <<>>], flags |-> {}, family |-> AF_UNSPEC,
     ignored |-> {}]

EmptySession == [data |-> EmptyData, report |-> <<>>]

IPSET_FLAG(opt) == opt

ipset_data_flags_test(data, flag) == flag \in data.flags

ipset_data_flags_set(data, flag) == [data EXCEPT !.flags = @ \cup {flag}]

ipset_data_family(data) == data.family

ipset_data_get(data, opt) ==
    IF opt = "IPSET_OPT_FAMILY" THEN data.family ELSE data.val[opt][1]

\* Stores the value and raises the option's set-bit; the family has its own
\* field.  The store itself never refuses an assignment.
ipset_data_set(data, opt, value) ==
    [data EXCEPT !.val[opt] = <<value>>,
                 !.flags = @ \cup {IPSET_FLAG(opt)},
                 !.family = IF opt = "IPSET_OPT_FAMILY" THEN value ELSE @]

\* Whether the option was already marked as ignored, marking it: [was, data]
ipset_data_ignored(data, opt) ==
    [was |-> opt \in data.ignored,
     data |-> [data EXCEPT !.ignored = @ \cup {opt}]]

ipset_session_data(s) == s.data

ipset_session_data_get(s, opt) == s.data.val[opt]

ipset_session_data_set(s, opt, value) ==
    [ret |-> 0, s |-> [s EXCEPT !.data = ipset_data_set(@, opt, value)]]

\* An error is appended to the session report, and the call returns -1.
ipset_err(s, msg) ==
    [ret |-> -1, s |-> [s EXCEPT !.report = Append(@, <<"error", msg>>)]]

ipset_warn(s, msg) ==
    [s EXCEPT !.report = Append(@, <<"warning", msg>>)]

ipset_session_report_reset(s) == [s EXCEPT !.report = <<>>]

\* parse.c:39-40
syntax_err(s, msg) == ipset_err(s, msg)

(***************************************************************************)
(* Numbers (parse.c:64-148).                                               *)
(***************************************************************************)
Digits == <<"0", "1", "2", "3", "4", "5", "6", "7", "8", "9",
            "a", "b", "c", "d", "e", "f">>
UpperDigits == <<"0", "1", "2", "3", "4", "5", "6", "7", "8", "9",
                 "A", "B", "C", "D", "E", "F">>

IsDigit(c, base) ==
    \E i \in 1..base : Digits[i] = c \/ UpperDigits[i] = c

DigitVal(c) ==
    (CHOOSE i \in 1..Len(Digits) : Digits[i] = c \/ UpperDigits[i] = c) - 1

isspace(c) == c \in {" ", "\t", "\n"}

RECURSIVE SkipSpace(_, _)
SkipSpace(s, i) ==
    IF i <= Len(s) /\ isspace(s[i]) THEN SkipSpace(s, i + 1) ELSE i

\* unsigned long long: four 16-bit limbs, the least significant first.
LIMB == 65536

\* The unsigned long long of a number below 2^31.
ULL(n) == <<n % LIMB, n \div LIMB, 0, 0>>

ULLONG_MAX == <<LIMB - 1, LIMB - 1, LIMB - 1, LIMB - 1>>
UINT_MAX == <<LIMB - 1, LIMB - 1, 0, 0>>

\* a <= b
ull_le(a, b) ==
    \/ a = b
    \/ \E k \in 1..4 : /\ a[k] < b[k]
                       /\ \A h \in (k + 1)..4 : a[h] = b[h]

\* a * base + d in 64 bits: [number, overflow]
ull_muladd(a, base, d) ==
    LET Sum(p1, p2, p3, p4) ==
            [number |-> <<p1 % LIMB, p2 % LIMB, p3 % LIMB, p4 % LIMB>>,
             overflow |-> p4 \div LIMB > 0]
        Limb4(p1, p2, p3) ==
            Sum(p1, p2, p3, a[4] * base + p3 \div LIMB)
        Limb3(p1, p2) == Limb4(p1, p2, a[3] * base + p2 \div LIMB)
        Limb2(p1) == Limb3(p1, a[2] * base + p1 \div LIMB)
    IN  Limb2(a[1] * base + d)

\* -a in 64 bits: 2^64 - a, and 0 for 0.
ull_neg(a) ==
    LET Inc(c) == ull_muladd(c, 1, 1).number
    IN  Inc([k \in 1..4 |-> LIMB - 1 - a[k]])

\* The digits of the given base from s[i] on: [end, number, erange]; the
\* number stays at ULLONG_MAX once it overflowed.
RECURSIVE ScanDigits(_, _, _, _, _)
ScanDigits(s, i, base, acc, erange) ==
    IF i <= Len(s) /\ IsDigit(s[i], base)
    THEN LET Next(n) ==
                 ScanDigits(s, i + 1, base,
                            IF erange \/ n.overflow THEN ULLONG_MAX
                            ELSE n.number,
                            erange \/ n.overflow)
         IN  Next(ull_muladd(acc, base, DigitVal(s[i])))
    ELSE [end |-> i, number |-> acc, erange |-> erange]

\* strtoull(str, &end, 0): white space, an optional sign, then a 0x, 0 or
\* decimal number.  end = 1 (the start of str) when no digit was converted.
\* A "-" negates the number in 64 bits; digits that overflow 64 bits give
\* ULLONG_MAX and erange (errno = ERANGE).
strtoull(str) ==
    LET Converted(i0, signed, i2, d) ==
            IF d.end = i2
            THEN [end |-> 1, number |-> ULL(0), erange |-> FALSE]
            ELSE [end |-> d.end,
                  number |-> IF signed /\ str[i0] = "-" /\ ~d.erange
                             THEN ull_neg(d.number) ELSE d.number,
                  erange |-> d.erange]
        Digs(i0, signed, i2, base) ==
            Converted(i0, signed, i2,
                      ScanDigits(str, i2, base, ULL(0), FALSE))
        Based(i0, signed, i1, hex) ==
            Digs(i0, signed, IF hex THEN i1 + 2 ELSE i1,
                 IF hex THEN 16
                 ELSE IF i1 <= Len(str) /\ str[i1] = "0" THEN 8
                 ELSE 10)
        Prefix(i0, signed, i1) ==
            Based(i0, signed, i1,
                  /\ i1 + 2 <= Len(str)
                  /\ str[i1] = "0"
                  /\ str[i1 + 1] \in {"x", "X"}
                  /\ IsDigit(str[i1 + 2], 16))
        Sign(i0, signed) == Prefix(i0, signed, IF signed THEN i0 + 1 ELSE i0)
        Start(i0) == Sign(i0, i0 <= Len(str) /\ str[i0] \in {"+", "-"})
    IN  Start(SkipSpace(str, 1))

USHRT_MAX == 65535
UCHAR_MAX == 255

\* parse.c:67-96.  [ret, s, num]: num is the unsigned long long the caller
\* passed in, 0, when the call fails.  min and max are unsigned long long.
string_to_number_ll(s, str, min, max) ==
    LET Failed(e) == [ret |-> e.ret, s |-> e.s, num |-> ULL(0)]
        Checked(n, parsed, wanted) ==
            IF parsed /\ wanted
            THEN [ret |-> 0, s |-> s, num |-> n.number]
            ELSE IF n.erange \/ (parsed /\ ~wanted)
            THEN Failed(syntax_err(s, "is out of range"))
            ELSE Failed(syntax_err(s, "is invalid as number"))
        Converted(n) ==
            Checked(n,
                    n.end = Len(str) + 1 /\ n.end # 1 /\ ~n.erange,
                    /\ ull_le(min, n.number)
                    /\ (max = ULL(0) \/ ull_le(n.number, max)))
    IN  Converted(strtoull(str))

\* parse.c:98-109.  *ret = num: the low 8 bits.
string_to_u8(s, str) ==
    LET Cast(r) == [ret |-> r.ret, s |-> r.s, num |-> r.num[1] % 256]
    IN  Cast(string_to_number_ll(s, str, ULL(0), ULL(UCHAR_MAX)))

\* string_to_cidr without the test against max.
string_to_cidr_no_max(s, str, min, max) ==
    LET Failed(e, num) == [ret |-> e.ret, s |-> e.s, num |-> num]
        Ranged(r) ==
            IF r.ret = 0 /\ r.num < min
            THEN Failed(syntax_err(r.s, "is out of range"), r.num)
            ELSE r
    IN  Ranged(string_to_u8(s, str))

\* parse.c:111-122
string_to_cidr(s, str, min, max) ==
    LET Failed(e, num) == [ret |-> e.ret, s |-> e.s, num |-> num]
        Ranged(r) ==
            IF r.ret = 0 /\ (r.num < min \/ r.num > max)
            THEN Failed(syntax_err(r.s, "is out of range"), r.num)
            ELSE r
    IN  Ranged(string_to_u8(s, str))

\* parse.c:124-135.  *ret = num: the low 16 bits.
string_to_u16(s, str) ==
    LET Cast(r) == [ret |-> r.ret, s |-> r.s, num |-> r.num[1]]
    IN  Cast(string_to_number_ll(s, str, ULL(0), ULL(USHRT_MAX)))

\* parse.c:137-148.  *ret = num: the low 32 bits, <<low half, high half>>.
string_to_u32(s, str) ==
    LET Cast(r) == [ret |-> r.ret, s |-> r.s,
                    num |-> <<r.num[1], r.num[2]>>]
    IN  Cast(string_to_number_ll(s, str, ULL(0), UINT_MAX))

(***************************************************************************)
(* Ethernet addresses (parse.c:150-192).                                   *)
(***************************************************************************)
ETH_ALEN == 6

\* strtol(str + start - 1, &end, 16): white space, an optional sign, an
\* optional 0x, then hexadecimal digits: [end, negative, magnitude], with end
\* = start when no digit was converted and the magnitude an unsigned long
\* long.
strtol(str, start) ==
    LET Converted(i0, signed, i2, d) ==
            IF d.end = i2
            THEN [end |-> start, negative |-> FALSE, magnitude |-> ULL(0)]
            ELSE [end |-> d.end,
                  negative |-> signed /\ str[i0] = "-" /\ d.number # ULL(0),
                  magnitude |-> d.number]
        Digs(i0, signed, i2) ==
            Converted(i0, signed, i2, ScanDigits(str, i2, 16, ULL(0), FALSE))
        Prefix(i0, signed, i1) ==
            Digs(i0, signed,
                 IF /\ i1 + 2 <= Len(str)
                    /\ str[i1] = "0"
                    /\ str[i1 + 1] \in {"x", "X"}
                    /\ IsDigit(str[i1 + 2], 16)
                 THEN i1 + 2 ELSE i1)
        Sign(i0, signed) == Prefix(i0, signed, IF signed THEN i0 + 1 ELSE i0)
        Start(i0) == Sign(i0, i0 <= Len(str) /\ str[i0] \in {"+", "-"})
    IN  Start(SkipSpace(str, start))

\* parse.c:161-192.  The address is stored as its six numbers.
ipset_parse_ether(s, opt, str) ==
    LET Octet(i) == strtol(str, i * 3 + 1)
        Good(i, n) ==
            /\ n.end = i * 3 + 3
            /\ (n.end = Len(str) + 1 \/ str[n.end] = ":")
            /\ ~n.negative
            /\ ull_le(n.magnitude, ULL(255))
    IN  IF Len(str) # ETH_ALEN * 3 - 1
        THEN syntax_err(s, "cannot parse as ethernet address")
        ELSE IF \A i \in 0..(ETH_ALEN - 1) : Good(i, Octet(i))
        THEN ipset_session_data_set(s, opt,
                 [i \in 1..ETH_ALEN |-> Octet(i - 1).magnitude[1]])
        ELSE syntax_err(s, "cannot parse as ethernet address")

(***************************************************************************)
(* Ports (parse.c:194-331).                                                *)
(***************************************************************************)
Str_tcp == <<"t", "c", "p">>
Str_TCP == <<"T", "C", "P">>
Str_udp == <<"u", "d", "p">>
Str_icmp == <<"i", "c", "m", "p">>
Str_icmpv6 == <<"i", "c", "m", "p", "v", "6">>
Str_ipv6_icmp == <<"i", "p", "v", "6", "-", "i", "c", "m", "p">>
Str_gre == <<"g", "r", "e">>
Str_ip == <<"i", "p">>
Str_http == <<"h", "t", "t", "p">>
Str_ftp_data == <<"f", "t", "p", "-", "d", "a", "t", "a">>
Str_echo_reply == <<"e", "c", "h", "o", "-", "r", "e", "p", "l", "y">>

\* A 16-bit number with its two bytes exchanged (a little-endian host).
htons(x) == (x % 256) * 256 + (x \div 256)
ntohs(x) == (x % 256) * 256 + (x \div 256)

\* The services database: <<name, protocol, s_port>>, s_port in network byte
\* order; NULL when not found.
ServicesDb == {<<Str_http, Str_tcp, htons(80)>>,
               <<Str_http, Str_udp, htons(80)>>,
               <<Str_ftp_data, Str_tcp, htons(20)>>}

getservbyname(str, proto) ==
    IF \E e \in ServicesDb : e[1] = str /\ e[2] = proto
    THEN <<(CHOOSE e \in ServicesDb : e[1] = str /\ e[2] = proto)[3]>>
    ELSE <<>>

\* parse.c:197-209
parse_portname(s, str, proto) ==
    LET Failed(e) == [ret |-> e.ret, s |-> e.s, num |-> 0]
        Found(service) ==
            IF service # <<>>
            THEN [ret |-> 0, s |-> s, num |-> ntohs(service[1] % 65536)]
            ELSE Failed(syntax_err(s, "cannot parse as a port"))
    IN  Found(getservbyname(str, proto))

\* ipset_parse_port had it lacked the ipset_session_report_reset of a
\* successful parse.
ipset_parse_port_keeps_report(s, opt, str, proto) ==
    LET Store(p) ==
            IF p.ret = 0 THEN ipset_session_data_set(p.s, opt, p.num)
            ELSE [ret |-> p.ret, s |-> p.s]
        Number(n) ==
            Store(IF n.ret = 0 THEN n ELSE parse_portname(n.s, str, proto))
    IN  Number(string_to_u16(s, str))

\* parse.c:223-244
ipset_parse_port(s, opt, str, proto) ==
    LET Reset(r) ==
            IF r.ret = 0
            THEN [ret |-> 0, s |-> ipset_session_report_reset(r.s)]
            ELSE r
        Store(p) ==
            Reset(IF p.ret = 0 THEN ipset_session_data_set(p.s, opt, p.num)
                  ELSE [ret |-> p.ret, s |-> p.s])
        Number(n) ==
            Store(IF n.ret = 0 THEN n ELSE parse_portname(n.s, str, proto))
    IN  Number(string_to_u16(s, str))

\* parse.c:259-289
ipset_parse_tcpudp_port(s, opt, str, proto) ==
    LET From(a, to) ==
            IF to.ret # 0 THEN to
            ELSE ipset_parse_port(to.s, opt, Head2(str, a), proto)
        Split(a) ==
            IF a # NULL
            THEN From(a, ipset_parse_port(s, "IPSET_OPT_PORT_TO",
                                          Tail2(str, a + 1), proto))
            ELSE ipset_parse_port(s, opt, str, proto)
    IN  Split(range_separator(str))

\* parse.c:303-308
ipset_parse_tcp_port(s, opt, str) ==
    ipset_parse_tcpudp_port(s, opt, str, Str_TCP)

\* parse.c:322-331
ipset_parse_single_tcp_port(s, opt, str) ==
    ipset_parse_port(s, opt, str, Str_TCP)

(***************************************************************************)
(* Protocols and ICMP (parse.c:333-544).                                   *)
(***************************************************************************)
IPPROTO_TCP == 6
IPPROTO_UDP == 17
IPPROTO_ICMP == 1
IPPROTO_ICMPV6 == 58

\* The protocols database: <<name, number>>.
ProtocolsDb == {<<Str_tcp, IPPROTO_TCP>>, <<Str_udp, IPPROTO_UDP>>,
                <<Str_icmp, IPPROTO_ICMP>>,
                <<Str_ipv6_icmp, IPPROTO_ICMPV6>>,
                <<Str_gre, 47>>, <<Str_ip, 0>>}

getprotobyname(name) ==
    IF \E e \in ProtocolsDb : e[1] = name
    THEN <<(CHOOSE e \in ProtocolsDb : e[1] = name)[2]>>
    ELSE <<>>

Upper == <<"I", "C", "M", "P", "V">>
Lower == <<"i", "c", "m", "p", "v">>

tolower(c) ==
    IF \E i \in 1..Len(Upper) : Upper[i] = c
    THEN Lower[CHOOSE i \in 1..Len(Upper) : Upper[i] = c]
    ELSE c

\* strcasecmp(a, b) == 0
strcaseeq(a, b) ==
    /\ Len(a) = Len(b)
    /\ \A i \in 1..Len(a) : tolower(a[i]) = tolower(b[i])

\* parse.c:344-365
ipset_parse_proto(s, opt, str) ==
    LET Found(protoent) ==
            IF protoent = <<>>
            THEN syntax_err(s, "cannot parse as a protocol name")
            ELSE IF protoent[1] = 0
            THEN syntax_err(s, "Unsupported protocol")
            ELSE ipset_session_data_set(s, opt, protoent[1])
    IN  Found(getprotobyname(IF strcaseeq(str, Str_icmpv6)
                             THEN Str_ipv6_icmp ELSE str))

\* The ICMP and ICMPv6 name tables: <<name, typecode>>.
IcmpNames == {<<Str_echo_reply, 0>>}
Icmpv6Names == {<<Str_echo_reply, 129 * 256>>}

\* name_to_icmp, name_to_icmpv6: <<typecode>>, or <<>> for "< 0".
name_to_typecode(table, str) ==
    IF \E e \in table : e[1] = str
    THEN <<(CHOOSE e \in table : e[1] = str)[2]>>
    ELSE <<>>

name_to_icmp(str) == name_to_typecode(IcmpNames, str)
name_to_icmpv6(str) == name_to_typecode(Icmpv6Names, str)

\* parse.c:368-400.  The part after the separator is read as the type and
\* the part before it as the code.
parse_icmp_typecode(s, opt, str, family) ==
    LET Packed(type, code) ==
            IF code.ret # 0 THEN [ret |-> code.ret, s |-> code.s]
            ELSE ipset_session_data_set(
                     code.s, opt, (type.num * 256 + code.num) % 65536)
        Typed(a, type) ==
            IF type.ret # 0 THEN [ret |-> type.ret, s |-> type.s]
            ELSE Packed(type, string_to_u8(type.s, Head2(str, a)))
        Split(a) ==
            IF a = NULL
            THEN ipset_err(s, "Cannot parse as a type/code")
            ELSE Typed(a, string_to_u8(s, Tail2(str, a + 1)))
    IN  Split(cidr_separator(str))

\* parse.c:413-427
ipset_parse_icmp(s, opt, str) ==
    LET Named(typecode) ==
            IF typecode = <<>>
            THEN parse_icmp_typecode(s, opt, str, "ICMP")
            ELSE ipset_session_data_set(s, opt, typecode[1])
    IN  Named(name_to_icmp(str))

\* parse.c:440-454
ipset_parse_icmpv6(s, opt, str) ==
    LET Named(typecode) ==
            IF typecode = <<>>
            THEN parse_icmp_typecode(s, opt, str, "ICMPv6")
            ELSE ipset_session_data_set(s, opt, typecode[1])
    IN  Named(name_to_icmpv6(str))

\* The return value that stands for the process dying of SIGSEGV.
SIGSEGV_EXIT == -139

\* parse.c:526.  The format has a %s and no argument for it: the error
\* text is garbage, or the process dies reading it.
syntax_err_noarg(s, msg, ub) ==
    IF ub = "crash"
    THEN [ret |-> SIGSEGV_EXIT,
          s |-> [s EXCEPT !.report = Append(@, <<"crash", msg>>)]]
    ELSE syntax_err(s, msg)

\* parse.c:469-544.  The results of the three syntax_err calls of the
\* switch are dropped: err keeps the 0 of ipset_parse_proto.
ipset_parse_proto_port(s, opt, str, ub) ==
    LET Dropped(err, e) ==
            [ret |-> IF e.ret = SIGSEGV_EXIT THEN e.ret ELSE err.ret,
             s |-> e.s]
        Port(family, tmp, port, err, p) ==
            IF p \in {IPPROTO_TCP, IPPROTO_UDP}
            THEN ipset_parse_tcpudp_port(err.s, opt, port, tmp)
            ELSE IF p = IPPROTO_ICMP
            THEN IF family # AF_INET
                 THEN Dropped(err, syntax_err(err.s,
                          "Protocol ICMP can be used with family INET only"))
                 ELSE ipset_parse_icmp(err.s, opt, port)
            ELSE IF p = IPPROTO_ICMPV6
            THEN IF family # AF_INET6
                 THEN Dropped(err, syntax_err(err.s,
                          "Protocol ICMPv6 can be used with family INET6 only"))
                 ELSE ipset_parse_icmpv6(err.s, opt, port)
            ELSE IF ~STREQ(port, <<"0">>)
            THEN Dropped(err, syntax_err_noarg(err.s,
                     "Protocol can be used with pseudo port value 0 only",
                     ub))
            ELSE [ret |-> err.ret,
                  s |-> [err.s EXCEPT !.data =
                             ipset_data_flags_set(@, IPSET_FLAG(opt))]]
        Proto(family, tmp, port, err) ==
            IF err.ret # 0 THEN err
            ELSE Port(family, tmp, port, err,
                      ipset_data_get(err.s.data, "IPSET_OPT_PROTO"))
        Split(a) ==
            IF a # NULL
            THEN Proto(ipset_data_family(ipset_session_data(s)),
                       Head2(str, a), Tail2(str, a + 1),
                       ipset_parse_proto(s, "IPSET_OPT_PROTO", Head2(str, a)))
            ELSE ipset_parse_tcpudp_port(
                     [s EXCEPT !.data =
                          ipset_data_set(@, "IPSET_OPT_PROTO", IPPROTO_TCP)],
                     opt, str, Str_TCP)
    IN  Split(proto_separator(str))

\* parse.c:557-583.  The "multiple times" error is reported and the parse
\* goes on.
ipset_parse_family(s, opt, str) ==
    LET Family(s1, family) ==
            IF family = "unknown"
            THEN syntax_err(s1, "unknown INET family")
            ELSE [ret |-> 0,
                  s |-> [s1 EXCEPT !.data = ipset_data_set(@, opt, family)]]
        s1 == IF ipset_data_flags_test(ipset_session_data(s),
                                       IPSET_FLAG("IPSET_OPT_FAMILY"))
              THEN syntax_err(s,
                       "protocol family may not be specified multiple times").s
              ELSE s
        family ==
            IF str \in {<<"i", "n", "e", "t">>, <<"i", "p", "v", "4">>,
                        <<"-", "4">>}
            THEN AF_INET
            ELSE IF str \in {<<"i", "n", "e", "t", "6">>,
                             <<"i", "p", "v", "6">>, <<"-", "6">>}
            THEN AF_INET6
            ELSE IF str \in {<<"a", "n", "y">>,
                             <<"u", "n", "s", "p", "e", "c">>}
            THEN AF_UNSPEC
            ELSE "unknown"
    IN  Family(s1, family)

(***************************************************************************)
(* Addresses, networks and ranges (parse.c:585-975).                       *)
(***************************************************************************)
Other(family) == IF family = AF_INET THEN AF_INET6 ELSE AF_INET

sockaddr_len(family) ==
    IF family = AF_INET THEN "sockaddr_in" ELSE "sockaddr_in6"

addrinfo(family, addr) ==
    [ai_family |-> family, ai_addrlen |-> sockaddr_len(family),
     ai_addr |-> <<family, addr>>]

\* The resolver of this model.  "a" has one address in either family, "m"
\* has two; "n" resolves, but to no address of the family asked for; any
\* other name does not resolve.  [err, res]
getaddrinfo(str, family) ==
    IF str = <<"a">>
    THEN [err |-> 0, res |-> <<addrinfo(family, "a")>>]
    ELSE IF str = <<"m">>
    THEN [err |-> 0, res |-> <<addrinfo(family, "m1"), addrinfo(family, "m2")>>]
    ELSE IF str = <<"n">>
    THEN [err |-> 0, res |-> <<addrinfo(Other(family), "n")>>]
    ELSE [err |-> -2, res |-> <<>>]

\* parse.c:590-612.  [res, s], res = <<>> standing for NULL.
call_getaddrinfo(s, str, family) ==
    LET Resolved(r) ==
            IF r.err # 0
            THEN [res |-> <<>>,
                  s |-> syntax_err(s, "cannot resolve to an address").s]
            ELSE [res |-> r.res, s |-> s]
    IN  Resolved(getaddrinfo(str, family))

EINVAL == 22

\* The loop of get_addrinfo over the entries from i on: [err, s, found].
RECURSIVE get_addrinfo_loop(_, _, _, _, _, _, _, _)
get_addrinfo_loop(s, opt, str, info, family, i, found, err) ==
    IF i > Len(info) THEN [err |-> err, s |-> s, found |-> found]
    ELSE IF info[i].ai_family # family
            \/ info[i].ai_addrlen # sockaddr_len(family)
    THEN get_addrinfo_loop(s, opt, str, info, family, i + 1, found, err)
    ELSE IF found = 0
    THEN LET First(r) ==
                 get_addrinfo_loop(r.s, opt, str, info, family, i + 1, 1,
                                   r.ret)
         IN  First(ipset_session_data_set(s, opt, info[i].ai_addr))
    ELSE IF found = 1
    THEN get_addrinfo_loop(
             ipset_warn(s, "resolves to multiple addresses"),
             opt, str, info, family, i + 1, 2, err)
    ELSE get_addrinfo_loop(s, opt, str, info, family, i + 1, found + 1, err)

\* parse.c:614-659.  [ret, s]: EINVAL when the resolver failed, the
\* syntax_err result when no entry fits the family, else the result of the
\* assignment.
get_addrinfo(s, opt, str, family) ==
    LET Found(l) ==
            IF l.found = 0
            THEN syntax_err(l.s, "address could not be resolved")
            ELSE [ret |-> l.err, s |-> l.s]
        Info(c) ==
            IF c.res = <<>>
            THEN [ret |-> EINVAL,
                  s |-> syntax_err(c.s, "resolving to address failed").s]
            ELSE Found(get_addrinfo_loop(c.s, opt, str, c.res, family,
                                         1, 0, 0))
    IN  Info(call_getaddrinfo(s, str, family))

\* The exit of parse_ipaddr (parse.c:697-704): err becomes -1 only when
\* aerr is EINVAL.
parse_ipaddr_out(s, aerr, err) ==
    [ret |-> IF aerr # EINVAL THEN err ELSE IF aerr # 0 THEN -1 ELSE err,
     s |-> s]

\* parse.c:661-705
parse_ipaddr(s, opt, str, family) ==
    LET m == IF family = AF_INET THEN 32 ELSE 128
        copt == IF opt = "IPSET_OPT_IP" THEN "IPSET_OPT_CIDR"
                ELSE "IPSET_OPT_CIDR2"
        To(second) == parse_ipaddr_out(second.s, second.ret, 0)
        From(rest, range, first) ==
            IF first.ret # 0 \/ ~range
            THEN parse_ipaddr_out(first.s, first.ret, 0)
            ELSE To(get_addrinfo(first.s, "IPSET_OPT_IP_TO", rest, family))
        \* err: the result of the "IP/mask" branch, 0 without it
        Addr(tmp, rest, range, err) ==
            IF err.ret # 0
            THEN parse_ipaddr_out(err.s, EINVAL, err.ret)
            ELSE From(rest, range, get_addrinfo(err.s, opt, tmp, family))
        Mask(cidr) ==
            IF cidr.ret # 0 THEN [ret |-> cidr.ret, s |-> cidr.s]
            ELSE ipset_session_data_set(cidr.s, copt, cidr.num)
        Cut(c, a) ==
            Addr(IF a # NULL THEN Head2(str, a) ELSE str,
                 IF a # NULL THEN Tail2(str, a + 1) ELSE <<>>,
                 c = NULL /\ a # NULL,
                 IF c # NULL
                 THEN Mask(string_to_cidr(s, Tail2(str, c + 1), 0, m))
                 ELSE [ret |-> 0, s |-> s])
        Split(c) == Cut(c, IF c # NULL THEN c ELSE range_separator(str))
    IN  Split(cidr_separator(str))

\* cidr_hostaddr had it forgotten the family: "/32" whatever the family.
cidr_hostaddr_v4only(str, family) ==
    STREQ(Tail2(str, cidr_separator(str)), <<"/", "3", "2">>)

\* parse.c:714-720
cidr_hostaddr(str, family) ==
    LET a == Tail2(str, cidr_separator(str))
    IN  IF family = AF_INET THEN STREQ(a, <<"/", "3", "2">>)
        ELSE STREQ(a, <<"/", "1", "2", "8">>)

\* parse_ip had it set the family to IPv4 without looking at the family of
\* the store.
parse_ip_resets_family(s, opt, str, addrtype) ==
    LET Check(s1, family) ==
            IF addrtype = "IPADDR_PLAIN"
               /\ (range_separator(str) # NULL
                   \/ (cidr_separator(str) # NULL
                       /\ ~cidr_hostaddr(str, family)))
            THEN syntax_err(s1, "plain IP address must be supplied")
            ELSE IF addrtype = "IPADDR_NET"
                    /\ (cidr_separator(str) = NULL
                        \/ range_separator(str) # NULL)
            THEN syntax_err(s1, "IP/netblock must be supplied")
            ELSE IF addrtype = "IPADDR_RANGE"
                    /\ (range_separator(str) = NULL
                        \/ cidr_separator(str) # NULL)
            THEN syntax_err(s1, "IP-IP range must supplied")
            ELSE parse_ipaddr(s1, opt, str, family)
    IN  Check([s EXCEPT !.data =
                  ipset_data_set(@, "IPSET_OPT_FAMILY", AF_INET)],
              AF_INET)

\* parse.c:722-757
parse_ip(s, opt, str, addrtype) ==
    LET Check(s1, family) ==
            IF addrtype = "IPADDR_PLAIN"
               /\ (range_separator(str) # NULL
                   \/ (cidr_separator(str) # NULL
                       /\ ~cidr_hostaddr(str, family)))
            THEN syntax_err(s1, "plain IP address must be supplied")
            ELSE IF addrtype = "IPADDR_NET"
                    /\ (cidr_separator(str) = NULL
                        \/ range_separator(str) # NULL)
            THEN syntax_err(s1, "IP/netblock must be supplied")
            ELSE IF addrtype = "IPADDR_RANGE"
                    /\ (range_separator(str) = NULL
                        \/ cidr_separator(str) # NULL)
            THEN syntax_err(s1, "IP-IP range must supplied")
            ELSE parse_ipaddr(s1, opt, str, family)
        Family(family) ==
            Check(IF family = AF_UNSPEC
                  THEN [s EXCEPT !.data =
                           ipset_data_set(@, "IPSET_OPT_FAMILY", AF_INET)]
                  ELSE s,
                  IF family = AF_UNSPEC THEN AF_INET ELSE family)
    IN  Family(ipset_data_family(ipset_session_data(s)))

\* parse.c:775-784
ipset_parse_ip(s, opt, str) == parse_ip(s, opt, str, "IPADDR_ANY")

\* parse.c:798-809
ipset_parse_single_ip(s, opt, str) == parse_ip(s, opt, str, "IPADDR_PLAIN")

\* parse.c:823-832
ipset_parse_net(s, opt, str) == parse_ip(s, opt, str, "IPADDR_NET")

\* parse.c:846-855.  The option given is not used: the range goes to
\* IPSET_OPT_IP.
ipset_parse_range(s, opt, str) ==
    parse_ip(s, "IPSET_OPT_IP", str, "IPADDR_RANGE")

\* parse.c:870-882
ipset_parse_netrange(s, opt, str) ==
    IF ~(range_separator(str) # NULL \/ cidr_separator(str) # NULL)
    THEN syntax_err(s, "IP/cidr or IP-IP range must be specified")
    ELSE parse_ip(s, opt, str, "IPADDR_ANY")

\* parse.c:897-909
ipset_parse_iprange(s, opt, str) ==
    IF cidr_separator(str) # NULL
    THEN syntax_err(s, "IP address or IP-IP range must be specified")
    ELSE parse_ip(s, opt, str, "IPADDR_ANY")

\* parse.c:923-935
ipset_parse_ipnet(s, opt, str) ==
    IF range_separator(str) # NULL
    THEN syntax_err(s, "IP address or IP/cidr must be specified")
    ELSE parse_ip(s, opt, str, "IPADDR_ANY")

\* parse.c:953-975
ipset_parse_ip4_single6(s, opt, str) ==
    LET Variant(s1, family) ==
            IF family = AF_INET THEN ipset_parse_ip(s1, opt, str)
            ELSE ipset_parse_single_ip(s1, opt, str)
        Family(family) ==
            Variant(IF family = AF_UNSPEC
                    THEN [s EXCEPT !.data =
                             ipset_data_set(@, "IPSET_OPT_FAMILY", AF_INET)]
                    ELSE s,
                    IF family = AF_UNSPEC THEN AF_INET ELSE family)
    IN  Family(ipset_data_family(ipset_session_data(s)))

(***************************************************************************)
(* Set names (parse.c:1027-1129).                                          *)
(***************************************************************************)
IPSET_MAXNAMELEN == 32

Str_before == <<"b", "e", "f", "o", "r", "e">>
Str_after == <<"a", "f", "t", "e", "r">>

\* The check_setname macro, parse.c:1027-1035: TRUE when the name is too long.
check_setname(str) == Len(str) > IPSET_MAXNAMELEN - 1

\* parse.c:1051-1103.  "setname,before|after,setname"
ipset_parse_name_compat(s, opt, str) ==
    LET data == ipset_session_data(s)
        s1 == IF ipset_data_flags_test(data, IPSET_FLAG("IPSET_OPT_NAMEREF"))
              THEN syntax_err(s,
                       "mixed syntax, before|after option already used").s
              ELSE s
        a == elem_separator(str)
        tmp == IF a # NULL THEN Head2(str, a) ELSE str
        arest == IF a # NULL THEN Tail2(str, a + 1) ELSE <<>>
        b == IF a # NULL THEN elem_separator(arest) ELSE NULL
        astr == IF b # NULL THEN Head2(arest, b) ELSE arest
        bstr == IF b # NULL THEN Tail2(arest, b + 1) ELSE <<>>
        before == a # NULL /\ STREQ(astr, Str_before)
    IN  IF a # NULL /\ (b = NULL \/ ~(STREQ(astr, Str_before)
                                      \/ STREQ(astr, Str_after)))
        THEN ipset_err(s1, "you must specify elements as setname,[before|after],setname")
        ELSE IF check_setname(tmp)
        THEN syntax_err(s1, "setname is longer than 31 characters")
        ELSE LET d1 == ipset_data_set(s1.data, opt, tmp)
             IN  IF b = NULL THEN [ret |-> 0, s |-> [s1 EXCEPT !.data = d1]]
                 ELSE IF check_setname(bstr)
                 THEN syntax_err([s1 EXCEPT !.data = d1],
                                 "setname is longer than 31 characters")
                 ELSE LET d2 == ipset_data_set(d1, "IPSET_OPT_NAMEREF", bstr)
                          d3 == IF before
                                THEN ipset_data_set(d2, "IPSET_OPT_BEFORE", 1)
                                ELSE d2
                      IN  [ret |-> 0, s |-> [s1 EXCEPT !.data = d3]]

\* parse.c:1116-1129
ipset_parse_setname(s, opt, str) ==
    IF check_setname(str)
    THEN syntax_err(s, "setname is longer than 31 characters")
    ELSE ipset_session_data_set(s, opt, str)

\* parse.c:1142-1160.  The diagnostic of a repeated before|after is raised
\* and its result dropped: the parser goes on.  The before marker is a
\* presence-only option, the store reads no value for it.
ipset_parse_before(s, opt, str) ==
    LET Rest(s1) ==
            IF check_setname(str)
            THEN syntax_err(s1, "setname is longer than 31 characters")
            ELSE [ret |-> 0,
                  s |-> [s1 EXCEPT !.data =
                            ipset_data_set(
                                ipset_data_set(@, "IPSET_OPT_BEFORE", 1),
                                opt, str)]]
    IN  Rest(IF ipset_data_flags_test(ipset_session_data(s),
                                      IPSET_FLAG("IPSET_OPT_NAMEREF"))
             THEN syntax_err(s,
                      "mixed syntax, before|after option already used").s
             ELSE s)

\* parse.c:1173-1190
ipset_parse_after(s, opt, str) ==
    LET Rest(s1) ==
            IF check_setname(str)
            THEN syntax_err(s1, "setname is longer than 31 characters")
            ELSE [ret |-> 0,
                  s |-> [s1 EXCEPT !.data = ipset_data_set(@, opt, str)]]
    IN  Rest(IF ipset_data_flags_test(ipset_session_data(s),
                                      IPSET_FLAG("IPSET_OPT_NAMEREF"))
             THEN syntax_err(s,
                      "mixed syntax, before|after option already used").s
             ELSE s)

(***************************************************************************)
(* Integers and flags (parse.c:1192-1309).                                 *)
(***************************************************************************)
\* parse.c:1230-1244
ipset_parse_uint8(s, opt, str) ==
    LET Store(r) ==
            IF r.ret = 0 THEN ipset_session_data_set(r.s, opt, r.num)
            ELSE [ret |-> r.ret, s |-> r.s]
    IN  Store(string_to_u8(s, str))

\* parse.c:1203-1217.  The value is stored as <<low half, high half>>.
ipset_parse_uint32(s, opt, str) ==
    LET Store(r) ==
            IF r.ret = 0 THEN ipset_session_data_set(r.s, opt, r.num)
            ELSE [ret |-> r.ret, s |-> r.s]
    IN  Store(string_to_u32(s, str))

\* parse.c:991-1025.  "IP,timeout"
ipset_parse_iptimeout(s, opt, str) ==
    LET Timeout(a, ip) ==
            IF ip.ret = 0
            THEN ipset_parse_uint32(ip.s, "IPSET_OPT_TIMEOUT",
                                    Tail2(str, a + 1))
            ELSE ip
        Split(a) ==
            IF a = NULL
            THEN syntax_err(s, "Missing separator")
            ELSE Timeout(a, parse_ip(s, opt, Head2(str, a), "IPADDR_ANY"))
    IN  IF ipset_data_flags_test(ipset_session_data(s),
                                 IPSET_FLAG("IPSET_OPT_TIMEOUT"))
        THEN syntax_err(s, "mixed syntax, timeout already specified")
        ELSE Split(elem_separator(str))

\* parse.c:1258-1289
ipset_parse_netmask(s, opt, str) ==
    LET Store(r) ==
            IF r.ret # 0
            THEN syntax_err(r.s, "netmask is out of the inclusive range")
            ELSE ipset_session_data_set(r.s, opt, r.num)
        Cidr(s1, family) ==
            Store(string_to_cidr(s1, str,
                                 IF family = AF_INET THEN 1 ELSE 4,
                                 IF family = AF_INET THEN 31 ELSE 124))
        Family(family) ==
            Cidr(IF family = AF_UNSPEC
                 THEN [s EXCEPT !.data =
                          ipset_data_set(@, "IPSET_OPT_FAMILY", AF_INET)]
                 ELSE s,
                 IF family = AF_UNSPEC THEN AF_INET ELSE family)
    IN  Family(ipset_data_family(ipset_session_data(s)))

\* parse.c:1302-1309.  The option is set with no value.
ipset_parse_flag(s, opt, str) ==
    [ret |-> 0,
     s |-> [s EXCEPT !.data = ipset_data_flags_set(@, IPSET_FLAG(opt))]]

\* parse.c:1390-1402
ipset_parse_ignored(s, opt, str) ==
    LET i == ipset_data_ignored(ipset_session_data(s), opt)
        s1 == [s EXCEPT !.data = i.data]
    IN  [ret |-> 0,
         s |-> IF ~i.was
               THEN ipset_warn(s1, "Option is ignored. Please upgrade your syntax.")
               ELSE s1]

(***************************************************************************)
(* Calling a parser through a function pointer (parse.c:1404-1437).       *)
(***************************************************************************)
\* A field parser a set type plugs in and that rejects its input with the
\* given code.
plugin_reject(s, code) ==
    [ret |-> code, s |-> syntax_err(s, "rejected by the type's parser").s]

RejectFns == {"plugin_reject_1", "plugin_reject_2", "plugin_reject_3"}

RejectCode(fn) ==
    IF fn = "plugin_reject_1" THEN -11
    ELSE IF fn = "plugin_reject_2" THEN -12
    ELSE -13

\* parse(session, opt, str) for the parser the pointer names.
CallParser(fn, s, opt, str) ==
    IF fn = "ipset_parse_setname" THEN ipset_parse_setname(s, opt, str)
    ELSE IF fn = "ipset_parse_name_compat"
    THEN ipset_parse_name_compat(s, opt, str)
    ELSE IF fn = "ipset_parse_uint8" THEN ipset_parse_uint8(s, opt, str)
    ELSE IF fn = "ipset_parse_flag" THEN ipset_parse_flag(s, opt, str)
    ELSE IF fn = "ipset_parse_ignored" THEN ipset_parse_ignored(s, opt, str)
    ELSE IF fn = "ipset_parse_family" THEN ipset_parse_family(s, opt, str)
    ELSE IF fn = "ipset_parse_proto" THEN ipset_parse_proto(s, opt, str)
    ELSE IF fn = "ipset_parse_ip" THEN ipset_parse_ip(s, opt, str)
    ELSE IF fn = "ipset_parse_single_ip"
    THEN ipset_parse_single_ip(s, opt, str)
    ELSE IF fn = "ipset_parse_net" THEN ipset_parse_net(s, opt, str)
    ELSE IF fn = "ipset_parse_range" THEN ipset_parse_range(s, opt, str)
    ELSE IF fn = "ipset_parse_icmp" THEN ipset_parse_icmp(s, opt, str)
    ELSE IF fn = "ipset_parse_icmpv6" THEN ipset_parse_icmpv6(s, opt, str)
    ELSE IF fn = "ipset_parse_tcp_port"
    THEN ipset_parse_tcp_port(s, opt, str)
    ELSE plugin_reject(s, RejectCode(fn))

\* parse.c:1417-1428.  The "already specified" error is reported and the
\* parser is called all the same.
ipset_call_parser(s, parse, optstr, opt, str) ==
    LET s1 == IF ipset_data_flags_test(ipset_session_data(s), IPSET_FLAG(opt))
              THEN syntax_err(s, "already specified").s
              ELSE s
    IN  CallParser(parse, s1, opt,
                   IF parse = "ipset_parse_ignored" THEN optstr ELSE str)

(***************************************************************************)
(* Set types and the element dispatcher (parse.c:1430-1535).               *)
(***************************************************************************)
IPSET_DIM_ONE == 1
IPSET_DIM_TWO == 2
IPSET_DIM_THREE == 3

\* The trace entry of one field parser invocation.
Invoked(d, t, str, r) ==
    [dim |-> d, fn |-> t.elem[d].parse, opt |-> t.elem[d].opt, str |-> str,
     ret |-> r.ret]

\* parse_elem had it lacked the "if (ret) goto out": the macro goes on
\* after a failed field.
parse_elem_goes_on(sofar, t, d, str) ==
    LET Internal(e) == [ret |-> e.ret, s |-> e.s, calls |-> sofar.calls]
        Parsed(r) == [ret |-> r.ret, s |-> r.s,
                      calls |-> Append(sofar.calls, Invoked(d, t, str, r))]
    IN  IF t.elem[d].parse = "NULL"
        THEN Internal(ipset_err(sofar.s,
                                "Internal error: missing parser function"))
        ELSE Parsed(CallParser(t.elem[d].parse, sofar.s, t.elem[d].opt, str))

\* The parse_elem macro, parse.c:1430-1437, on the result so far: nothing
\* once ret is set; "internal" when the type has no parser for the
\* dimension; else the parser's result.  [ret, s, calls]
parse_elem(sofar, t, d, str) ==
    LET Internal(e) == [ret |-> e.ret, s |-> e.s, calls |-> sofar.calls]
        Parsed(r) == [ret |-> r.ret, s |-> r.s,
                      calls |-> Append(sofar.calls, Invoked(d, t, str, r))]
    IN  IF sofar.ret # 0 THEN sofar
        ELSE IF t.elem[d].parse = "NULL"
        THEN Internal(ipset_err(sofar.s,
                                "Internal error: missing parser function"))
        ELSE Parsed(CallParser(t.elem[d].parse, sofar.s, t.elem[d].opt, str))

\* The elem_syntax_err macro, parse.c:1439-1443.
elem_syntax_err(s, msg) ==
    LET e == syntax_err(s, msg) IN [ret |-> e.ret, s |-> e.s, calls |-> <<>>]

\* ipset_parse_elem had it counted the separators only after the first
\* field was parsed.
ipset_parse_elem_checks_late(s, optional, str) ==
    LET type == ipset_session_data_get(s, "IPSET_OPT_TYPE")
    IN  IF type = <<>>
        THEN LET e == ipset_err(s, "Internal error: set type is unknown!")
             IN  [ret |-> e.ret, s |-> e.s, calls |-> <<>>]
        ELSE
        LET t == type[1]
            a == elem_separator(str)
            tmp == IF t.dimension > IPSET_DIM_ONE /\ a # NULL
                   THEN Head2(str, a) ELSE str
            arest == IF a # NULL THEN Tail2(str, a + 1) ELSE <<>>
            b == IF a # NULL THEN elem_separator(arest) ELSE NULL
            astr == IF t.dimension > IPSET_DIM_TWO /\ b # NULL
                    THEN Head2(arest, b) ELSE arest
            bstr == IF b # NULL THEN Tail2(arest, b + 1) ELSE <<>>
            Compat(r) ==
                [ret |-> r.ret, s |-> r.s,
                 calls |-> <<[dim |-> 0, fn |-> t.compat_parse_elem,
                              opt |-> t.elem[IPSET_DIM_ONE].opt,
                              str |-> str, ret |-> r.ret]>>]
            Three(two) ==
                IF t.dimension > IPSET_DIM_TWO /\ b # NULL
                THEN parse_elem(two, t, IPSET_DIM_THREE, bstr)
                ELSE two
            Two(one) ==
                Three(IF t.dimension > IPSET_DIM_ONE /\ a # NULL
                      THEN parse_elem(one, t, IPSET_DIM_TWO, astr)
                      ELSE one)
        IN  IF t.dimension > IPSET_DIM_ONE /\ a = NULL /\ ~optional
            THEN elem_syntax_err(s, "Second element is missing")
            ELSE IF ~(t.dimension > IPSET_DIM_ONE) /\ a # NULL
            THEN IF t.compat_parse_elem # "NULL"
                 THEN Compat(CallParser(t.compat_parse_elem, s,
                                        t.elem[IPSET_DIM_ONE].opt, str))
                 ELSE elem_syntax_err(s, "Elem separator, but settype supports none")
            ELSE IF t.dimension > IPSET_DIM_TWO /\ b = NULL /\ ~optional
            THEN elem_syntax_err(s, "Third element is missing")
            ELSE IF ~(t.dimension > IPSET_DIM_TWO) /\ b # NULL
            THEN elem_syntax_err(
                     parse_elem([ret |-> 0, s |-> s, calls |-> <<>>],
                                t, IPSET_DIM_ONE, tmp).s,
                     "Two elem separators, but settype supports one")
            ELSE IF b # NULL /\ elem_separator(bstr) # NULL
            THEN elem_syntax_err(
                     parse_elem([ret |-> 0, s |-> s, calls |-> <<>>],
                                t, IPSET_DIM_ONE, tmp).s,
                     "Three elem separators, but settype supports two")
            ELSE Two(parse_elem([ret |-> 0, s |-> s, calls |-> <<>>],
                                t, IPSET_DIM_ONE, tmp))

\* parse.c:1456-1535.  [ret, s, calls]
ipset_parse_elem(s, optional, str) ==
    LET type == ipset_session_data_get(s, "IPSET_OPT_TYPE")
    IN  IF type = <<>>
        THEN LET e == ipset_err(s, "Internal error: set type is unknown!")
             IN  [ret |-> e.ret, s |-> e.s, calls |-> <<>>]
        ELSE
        LET t == type[1]
            a == elem_separator(str)
            tmp == IF t.dimension > IPSET_DIM_ONE /\ a # NULL
                   THEN Head2(str, a) ELSE str
            arest == IF a # NULL THEN Tail2(str, a + 1) ELSE <<>>
            b == IF a # NULL THEN elem_separator(arest) ELSE NULL
            astr == IF t.dimension > IPSET_DIM_TWO /\ b # NULL
                    THEN Head2(arest, b) ELSE arest
            bstr == IF b # NULL THEN Tail2(arest, b + 1) ELSE <<>>
            Compat(r) ==
                [ret |-> r.ret, s |-> r.s,
                 calls |-> <<[dim |-> 0, fn |-> t.compat_parse_elem,
                              opt |-> t.elem[IPSET_DIM_ONE].opt,
                              str |-> str, ret |-> r.ret]>>]
            Three(two) ==
                IF t.dimension > IPSET_DIM_TWO /\ b # NULL
                THEN parse_elem(two, t, IPSET_DIM_THREE, bstr)
                ELSE two
            Two(one) ==
                Three(IF t.dimension > IPSET_DIM_ONE /\ a # NULL
                      THEN parse_elem(one, t, IPSET_DIM_TWO, astr)
                      ELSE one)
        IN  IF t.dimension > IPSET_DIM_ONE /\ a = NULL /\ ~optional
            THEN elem_syntax_err(s, "Second element is missing")
            ELSE IF ~(t.dimension > IPSET_DIM_ONE) /\ a # NULL
            THEN IF t.compat_parse_elem # "NULL"
                 THEN Compat(CallParser(t.compat_parse_elem, s,
                                        t.elem[IPSET_DIM_ONE].opt, str))
                 ELSE elem_syntax_err(s, "Elem separator, but settype supports none")
            ELSE IF t.dimension > IPSET_DIM_TWO /\ b = NULL /\ ~optional
            THEN elem_syntax_err(s, "Third element is missing")
            ELSE IF ~(t.dimension > IPSET_DIM_TWO) /\ b # NULL
            THEN elem_syntax_err(s, "Two elem separators, but settype supports one")
            ELSE IF b # NULL /\ elem_separator(bstr) # NULL
            THEN elem_syntax_err(s, "Three elem separators, but settype supports two")
            ELSE Two(parse_elem([ret |-> 0, s |-> s, calls |-> <<>>],
                                t, IPSET_DIM_ONE, tmp))

(***************************************************************************)
(* The registry of set types, and ipset_parse_typename.                    *)
(***************************************************************************)
DimOpt == <<"IPSET_OPT_NAME", "IPSET_OPT_SETNAME2", "IPSET_SETNAME">>
DimName == <<"one", "two", "three">>

\* A type descriptor: the parsers of its dimensions and the compat parser.
TypeOf(dimension, parsers, compat) ==
    [name |-> <<DimName[dimension]>> \o parsers \o <<compat>>,
     dimension |-> dimension,
     elem |-> [d \in 1..3 |-> [parse |-> parsers[d], opt |-> DimOpt[d]]],
     compat_parse_elem |-> compat]

\* The parsers a type may bind to its dimension d; the last dimension of a
\* type may lack its parser.
FieldParsers(d, last) ==
    {"ipset_parse_setname",
     IF d = 1 THEN "plugin_reject_1"
     ELSE IF d = 2 THEN "plugin_reject_2" ELSE "plugin_reject_3"}
        \cup (IF last THEN {"NULL"} ELSE {})

Types ==
    {TypeOf(1, <<p1, "NULL", "NULL">>, c) :
        p1 \in FieldParsers(1, TRUE),
        c \in {"NULL", "ipset_parse_name_compat"}}
    \cup {TypeOf(2, <<p1, p2, "NULL">>, "NULL") :
        p1 \in FieldParsers(1, FALSE), p2 \in FieldParsers(2, TRUE)}
    \cup {TypeOf(3, <<p1, p2, p3>>, "NULL") :
        p1 \in FieldParsers(1, FALSE), p2 \in FieldParsers(2, FALSE),
        p3 \in FieldParsers(3, TRUE)}

\* <<typename>>, or <<>> for NULL
ipset_typename_resolve(str) ==
    IF \E t \in Types : t.name = str THEN <<str>> ELSE <<>>

\* The type registered under the session's typename: <<type>>, or <<>>.
ipset_type_get(s) ==
    LET typename == ipset_session_data_get(s, "IPSET_OPT_TYPENAME")[1]
    IN  IF \E t \in Types : t.name = typename
        THEN <<CHOOSE t \in Types : t.name = typename>>
        ELSE <<>>

\* parse.c:1323-1349
ipset_parse_typename(s, opt, str) ==
    IF Len(str) > IPSET_MAXNAMELEN - 1
    THEN syntax_err(s, "typename is longer than 31 characters")
    ELSE LET typename == ipset_typename_resolve(str)
         IN  IF typename = <<>>
             THEN syntax_err(s, "typename is unkown")
             ELSE LET s1 == ipset_session_data_set(
                                s, "IPSET_OPT_TYPENAME", typename[1]).s
                      type == ipset_type_get(s1)
                  IN  IF type = <<>> THEN [ret |-> -1, s |-> s1]
                      ELSE ipset_session_data_set(s1, "IPSET_OPT_TYPE",
                                                  type[1])

(***************************************************************************)
(* The state machine: one action per parser entry point.                   *)
(***************************************************************************)
NoArg == <<>>

Init ==
    /\ session = EmptySession
    /\ prev = EmptySession
    /\ call = [fn |-> "none", opt |-> "none", str |-> <<>>, arg |-> NoArg]
    /\ ret = 0
    /\ calls = <<>>
    /\ ncalls = 0

\* The effect of one parser call with result r = [ret, s].
Returned(fn, opt, str, arg, r) ==
    /\ ret # SIGSEGV_EXIT
    /\ prev' = session
    /\ session' = r.s
    /\ ret' = r.ret
    /\ call' = [fn |-> fn, opt |-> opt, str |-> str, arg |-> arg]

Called(fn, opt, str, arg, r) ==
    /\ ncalls < MaxCalls
    /\ ncalls' = ncalls + 1
    /\ Returned(fn, opt, str, arg, r)

\* The decimal digits of n.
RECURSIVE Dec(_)
Dec(n) == IF n < 10 THEN <<Digits[n + 1]>>
          ELSE Append(Dec(n \div 10), Digits[(n % 10) + 1])

RECURSIVE StringsUpTo(_, _)
StringsUpTo(alphabet, n) ==
    IF n = 0 THEN {<<>>}
    ELSE LET shorter == StringsUpTo(alphabet, n - 1) IN
         shorter \cup {Append(s, c) : s \in {t \in shorter : Len(t) = n - 1},
                                      c \in alphabet}

StrchrChars == {"a", ",", "/"}
StrchrStrings == StringsUpTo(StrchrChars, MaxStrLen)
StrchrSeps == {IPSET_ELEM_SEPARATOR, IPSET_CIDR_SEPARATOR}

\* ipset_strchr applied to a string and a separator: it touches no session.
StrchrCall ==
    /\ \E str \in StrchrStrings, sep \in StrchrSeps :
          /\ call' = [fn |-> "ipset_strchr", opt |-> "none", str |-> str,
                      arg |-> sep]
          /\ ret' = ipset_strchr(str, sep)
    /\ UNCHANGED <<session, prev, calls, ncalls>>

NextStrchr == StrchrCall

SpecStrchr == Init /\ [][NextStrchr]_vars

(***************************************************************************)
(* Protocol and port calls.                                                *)
(***************************************************************************)
FamilyStrings == {<<"i", "n", "e", "t">>, <<"-", "6">>,
                  <<"u", "n", "s", "p", "e", "c">>, <<"x">>}

FamilyCall ==
    /\ \E str \in FamilyStrings :
          Called("ipset_parse_family", "IPSET_OPT_FAMILY", str, NoArg,
                 ipset_parse_family(session, "IPSET_OPT_FAMILY", str))
    /\ calls' = <<>>

ProtoStrings == {Str_tcp, Str_icmp, Str_icmpv6, Str_gre, Str_ip, <<"x">>}
PortStrings == {<<"0">>, <<"8", "0">>, <<"3", "/", "1">>, Str_echo_reply,
                Str_http, <<"3", "/", "x">>}

\* "proto:port", or a port alone (arg = <<>>).
ProtoPortCall ==
    /\ \E arg \in {<<p, q>> : p \in ProtoStrings, q \in PortStrings}
                  \cup {<<q>> : q \in PortStrings},
          ub \in {"garbage", "crash"} :
          LET str == IF Len(arg) = 2
                     THEN arg[1] \o IPSET_PROTO_SEPARATOR \o arg[2]
                     ELSE arg[1]
          IN  Called("ipset_parse_proto_port", "IPSET_OPT_PORT", str, arg,
                     ipset_parse_proto_port(session, "IPSET_OPT_PORT", str, ub))
    /\ calls' = <<>>

NextProto == FamilyCall \/ ProtoPortCall

SpecProto == Init /\ [][NextProto]_vars

IcmpNums == {0, 1, 3, 255, 256}
IcmpArgs == {<<x, y>> : x \in IcmpNums, y \in IcmpNums}
IcmpStr(arg) == Dec(arg[1]) \o IPSET_CIDR_SEPARATOR \o Dec(arg[2])

\* ipset_parse_icmp on "X/Y" (arg = <<X, Y>>) or on a name (arg = <<>>).
IcmpCall ==
    /\ \/ \E arg \in IcmpArgs :
             Called("ipset_parse_icmp", "IPSET_OPT_PORT", IcmpStr(arg), arg,
                    ipset_parse_icmp(session, "IPSET_OPT_PORT", IcmpStr(arg)))
       \/ \E str \in {Str_echo_reply, <<"3">>} :
             Called("ipset_parse_icmp", "IPSET_OPT_PORT", str, NoArg,
                    ipset_parse_icmp(session, "IPSET_OPT_PORT", str))
    /\ calls' = <<>>

Icmpv6Call ==
    /\ \/ \E arg \in IcmpArgs :
             Called("ipset_parse_icmpv6", "IPSET_OPT_PORT", IcmpStr(arg), arg,
                    ipset_parse_icmpv6(session, "IPSET_OPT_PORT", IcmpStr(arg)))
       \/ \E str \in {Str_echo_reply, <<"3">>} :
             Called("ipset_parse_icmpv6", "IPSET_OPT_PORT", str, NoArg,
                    ipset_parse_icmpv6(session, "IPSET_OPT_PORT", str))
    /\ calls' = <<>>

NextIcmp == IcmpCall \/ Icmpv6Call

SpecIcmp == Init /\ [][NextIcmp]_vars

(***************************************************************************)
(* Calls through ipset_call_parser.                                        *)
(***************************************************************************)
\* <<parser, option name, option, string>>
ParserCalls ==
    {<<"ipset_parse_setname", <<"n">>, "IPSET_SETNAME", str>> :
        str \in {<<"s">>, <<"t">>}}
    \cup {<<"ipset_parse_uint8", <<"p">>, "IPSET_OPT_PROBES", str>> :
        str \in {<<"1">>, <<"2">>, <<"x">>}}
    \cup {<<"ipset_parse_proto", <<"o">>, "IPSET_OPT_PROTO", str>> :
        str \in {Str_tcp, Str_udp}}
    \cup {<<"ipset_parse_flag", <<"b">>, "IPSET_OPT_BEFORE", <<>>>>,
          <<"ipset_parse_ignored", <<"g">>, "IPSET_OPT_GC", <<"1">>>>}

CallParserCall ==
    /\ \E c \in ParserCalls :
          Called("ipset_call_parser", c[3], c[4], <<c[1]>>,
                 ipset_call_parser(session, c[1], c[2], c[3], c[4]))
    /\ calls' = <<>>

NextCallParser == CallParserCall \/ FamilyCall

SpecCallParser == Init /\ [][NextCallParser]_vars

(***************************************************************************)
(* Element calls.                                                          *)
(***************************************************************************)
\* The type name is parsed once, before the elements.
TypenameCall ==
    /\ "IPSET_OPT_TYPE" \notin session.data.flags
    /\ \E t \in Types :
          Returned("ipset_parse_typename", "IPSET_OPT_TYPENAME", t.name,
                   NoArg,
                   ipset_parse_typename(session, "IPSET_OPT_TYPENAME", t.name))
    /\ UNCHANGED <<calls, ncalls>>

\* The strings of n parts, each "" or "a", joined by the element separator.
RECURSIVE Joined(_)
Joined(n) ==
    IF n = 1 THEN {<<>>, <<"a">>}
    ELSE {s \o IPSET_ELEM_SEPARATOR \o part :
             s \in Joined(n - 1), part \in {<<>>, <<"a">>}}

ElemStrings == UNION {Joined(n) : n \in 1..MaxParts}

ElemCall ==
    /\ ncalls < MaxElemCalls
    /\ ncalls' = ncalls + 1
    /\ \E str \in ElemStrings, optional \in BOOLEAN :
          LET Parsed(r) ==
                  /\ Returned("ipset_parse_elem", "none", str, <<optional>>,
                              [ret |-> r.ret, s |-> r.s])
                  /\ calls' = r.calls
          IN  Parsed(ipset_parse_elem(session, optional, str))

NextElem == TypenameCall \/ ElemCall

SpecElem == Init /\ [][NextElem]_vars

(***************************************************************************)
(* C1 - the dimension bounds the parts of an element.                      *)
(***************************************************************************)
Parts(str) == Cardinality(Occurs(str, IPSET_ELEM_SEPARATOR[1])) + 1

\* The last call was ipset_parse_elem with a type in the store.
ElemCalled ==
    /\ call.fn = "ipset_parse_elem"
    /\ prev.data.val["IPSET_OPT_TYPE"] # <<>>

ElemType == prev.data.val["IPSET_OPT_TYPE"][1]

\* C1 (the claim as stated): for a type of dimension d (with no compat
\* parser when d = 1), ipset_parse_elem returns success only if the string
\* has at most d parts delimited by the element separator and, when the
\* call is not optional, exactly d parts - wherever the separators are,
\* also first or last in the string.
C1_Claim ==
    (/\ ElemCalled
     /\ ElemType.dimension = 1 => ElemType.compat_parse_elem = "NULL"
     /\ ret = 0) =>
        /\ Parts(call.str) <= ElemType.dimension
        /\ ~call.arg[1] => Parts(call.str) = ElemType.dimension

\* No part of the string is empty: no separator is first, last or follows
\* another.
NoEmptyPart(str) ==
    /\ str # <<>>
    /\ str[1] # IPSET_ELEM_SEPARATOR[1]
    /\ str[Len(str)] # IPSET_ELEM_SEPARATOR[1]
    /\ \A i \in 1..(Len(str) - 1) :
           ~(str[i] = IPSET_ELEM_SEPARATOR[1]
             /\ str[i + 1] = IPSET_ELEM_SEPARATOR[1])

\* What the code keeps of C1: the claim for strings without an empty part.
C1_CodeKeeps ==
    (/\ ElemCalled
     /\ ElemType.dimension = 1 => ElemType.compat_parse_elem = "NULL"
     /\ NoEmptyPart(call.str)
     /\ ret = 0) =>
        /\ Parts(call.str) <= ElemType.dimension
        /\ ~call.arg[1] => Parts(call.str) = ElemType.dimension

C1_Witness ==
    /\ ElemCalled
    /\ ElemType.dimension = 2
    /\ ~call.arg[1]
    /\ Parts(call.str) = 3
    /\ ret = 0

(***************************************************************************)
(* C2 - the fields are parsed in order, up to the first failure.           *)
(***************************************************************************)
\* C2: ipset_parse_elem invokes the field parsers in the order of the
\* dimensions one, two, three; after a field parser returned non-zero no
\* other is invoked, and ipset_parse_elem returns that result.
C2_InOrderUntilFailure ==
    (ElemCalled /\ calls # <<>> /\ calls[1].dim # 0) =>
        /\ \A i \in 1..Len(calls) :
               /\ calls[i].dim = i
               /\ calls[i].fn = ElemType.elem[i].parse
        /\ \A i \in 1..(Len(calls) - 1) : calls[i].ret = 0
        /\ calls[Len(calls)].ret # 0 => ret = calls[Len(calls)].ret

C2_Witness ==
    /\ ElemCalled
    /\ Len(calls) = 2
    /\ calls[1].ret = 0
    /\ calls[2].ret = RejectCode("plugin_reject_2")
    /\ ret = RejectCode("plugin_reject_2")
    /\ ElemType.dimension = 3

(***************************************************************************)
(* C3 - an option given twice.                                             *)
(***************************************************************************)
DuplicateCall ==
    \/ call.fn = "ipset_call_parser" /\ call.opt \in prev.data.flags
    \/ /\ call.fn = "ipset_parse_family"
       /\ "IPSET_OPT_FAMILY" \in prev.data.flags

\* C3 (the claim as stated): a parser invoked through ipset_call_parser, or
\* ipset_parse_family, for an option whose set-bit is already raised fails
\* with a duplicate-option error, and the value stored for the option
\* remains that of the first call.
C3_Claim ==
    DuplicateCall =>
        /\ ret # 0
        /\ session.data.val[call.opt] = prev.data.val[call.opt]
        /\ session.data.family = prev.data.family

\* What the code keeps of C3: the duplicate is reported.
C3_DuplicateReported ==
    DuplicateCall => Len(session.report) > Len(prev.report)

C3_Witness ==
    /\ DuplicateCall
    /\ ret = 0
    /\ session.data.val[call.opt] # prev.data.val[call.opt]

(***************************************************************************)
(* C4 - ICMP and ICMPv6 need their own family.                             *)
(***************************************************************************)
PortUntouched ==
    /\ session.data.val["IPSET_OPT_PORT"] = prev.data.val["IPSET_OPT_PORT"]
    /\ ("IPSET_OPT_PORT" \in session.data.flags)
           = ("IPSET_OPT_PORT" \in prev.data.flags)

IcmpFamilyMismatch ==
    /\ call.fn = "ipset_parse_proto_port"
    /\ Len(call.arg) = 2
    /\ \/ call.arg[1] = Str_icmp /\ prev.data.family # AF_INET
       \/ call.arg[1] = Str_icmpv6 /\ prev.data.family # AF_INET6

\* C4 (the claim as stated): "icmp:<x>" with a family other than IPv4, or
\* "icmpv6:<x>" with a family other than IPv6, returns a non-zero result
\* and stores no port value.
C4_Claim == IcmpFamilyMismatch => (ret # 0 /\ PortUntouched)

\* The half of C4 the code keeps: no port value is stored.
C4_NoPortStored == IcmpFamilyMismatch => PortUntouched

C4_Witness ==
    /\ IcmpFamilyMismatch
    /\ ret = 0
    /\ Len(session.report) > 0

(***************************************************************************)
(* C5 - other protocols take the pseudo port 0 only.                       *)
(***************************************************************************)
OtherProtoCall ==
    /\ call.fn = "ipset_parse_proto_port"
    /\ Len(call.arg) = 2
    /\ call.arg[1] = Str_gre

\* C5 (the claim as stated): "<proto>:<port>" with a known protocol other
\* than TCP, UDP, ICMP and ICMPv6 succeeds if and only if <port> is "0"; on
\* success the set-bit of the port option is raised and no numeric port is
\* written; every other <port> returns a failure result.
C5_Claim ==
    OtherProtoCall =>
        /\ ret = 0 <=> call.arg[2] = <<"0">>
        /\ ret = 0 => /\ "IPSET_OPT_PORT" \in session.data.flags
                      /\ session.data.val["IPSET_OPT_PORT"]
                             = prev.data.val["IPSET_OPT_PORT"]

\* What the code keeps of C5: the set-bit is raised exactly for "0", and a
\* numeric port is never written.
C5_CodeKeeps ==
    OtherProtoCall =>
        /\ session.data.val["IPSET_OPT_PORT"] = prev.data.val["IPSET_OPT_PORT"]
        /\ call.arg[2] = <<"0">>
               => (ret = 0 /\ "IPSET_OPT_PORT" \in session.data.flags)
        /\ call.arg[2] # <<"0">>
               => /\ ("IPSET_OPT_PORT" \in session.data.flags)
                        = ("IPSET_OPT_PORT" \in prev.data.flags)
                  /\ Len(session.report) > Len(prev.report)

C5_Witness ==
    /\ OtherProtoCall
    /\ call.arg[2] # <<"0">>
    /\ ret = 0

(***************************************************************************)
(* C8 - numeric ICMP type/code.                                            *)
(***************************************************************************)
NumericIcmpCall ==
    /\ call.fn \in {"ipset_parse_icmp", "ipset_parse_icmpv6"}
    /\ Len(call.arg) = 2
    /\ call.arg[1] \in 0..255
    /\ call.arg[2] \in 0..255

\* C8 (the claim as stated): for "X/Y" with X and Y in 0..255,
\* ipset_parse_icmp and ipset_parse_icmpv6 store (X << 8) | Y under the
\* port option.
C8_Claim ==
    NumericIcmpCall =>
        /\ ret = 0
        /\ session.data.val["IPSET_OPT_PORT"]
               = <<call.arg[1] * 256 + call.arg[2]>>

\* What the code stores: the halves the other way round, (Y << 8) | X.
C8_CodeStores ==
    NumericIcmpCall =>
        /\ ret = 0
        /\ session.data.val["IPSET_OPT_PORT"]
               = <<call.arg[2] * 256 + call.arg[1]>>

C8_Witness ==
    /\ NumericIcmpCall
    /\ call.arg = <<3, 1>>
    /\ session.data.val["IPSET_OPT_PORT"] = <<1 * 256 + 3>>

(***************************************************************************)
(* Address calls.  A token is <<string, endpoints>>: the host names of a   *)
(* well-formed token, <<>> for a token that is not well formed.            *)
(***************************************************************************)
Cidr(h, n) == h \o IPSET_CIDR_SEPARATOR \o n
Range(h1, h2) == h1 \o IPSET_RANGE_SEPARATOR \o h2

Host_a == <<"a">>
Host_m == <<"m">>
Host_n == <<"n">>
Host_x == <<"x">>
Len32 == <<"3", "2">>
Len128 == <<"1", "2", "8">>
Len24 == <<"2", "4">>

\* Tokens with both a CIDR and a range separator.
MixedTokens ==
    {<<Cidr(Range(Host_a, Host_m), Len24), <<>>>>,
     <<Range(Cidr(Host_a, Len24), Host_m), <<>>>>,
     <<IPSET_RANGE_SEPARATOR \o Cidr(Range(Host_a, Host_m), Len24), <<>>>>,
     <<IPSET_RANGE_SEPARATOR \o Cidr(Range(Host_a, Host_m), Len32), <<>>>>,
     <<IPSET_CIDR_SEPARATOR \o Range(Cidr(Host_a, Len24), Host_m), <<>>>>}

PlainTokens ==
    {<<h, <<h>>>> : h \in {Host_a, Host_n, Host_x}}

HostCidrTokens ==
    {<<Cidr(h, n), <<h>>>> : h \in {Host_a, Host_x}, n \in {Len32, Len128}}

NetTokens == {<<Cidr(h, Len24), <<h>>>> : h \in {Host_a, Host_n}}

RangeTokens ==
    {<<Range(h[1], h[2]), h>> :
        h \in {<<Host_a, Host_m>>, <<Host_a, Host_x>>, <<Host_a, Host_n>>,
               <<Host_n, Host_a>>}}

IpCalled(fn, opt, tok, r) ==
    /\ Called(fn, opt, tok[1], tok[2], r)
    /\ calls' = <<>>

SingleIpCall ==
    \E tok \in PlainTokens \cup HostCidrTokens \cup NetTokens \cup MixedTokens
               \cup {<<Range(Host_a, Host_m), <<Host_a, Host_m>>>>},
       opt \in {"IPSET_OPT_IP", "IPSET_OPT_IP2"} :
        /\ opt = "IPSET_OPT_IP2" => tok \in HostCidrTokens
        /\ IpCalled("ipset_parse_single_ip", opt, tok,
                    ipset_parse_single_ip(session, opt, tok[1]))

\* The tokens given with the option IPSET_OPT_IP2: a network and a range.
Ip2Tokens == {<<Cidr(Host_a, Len24), <<Host_a>>>>,
              <<Range(Host_a, Host_m), <<Host_a, Host_m>>>>}

NetCall ==
    \E tok \in NetTokens \cup MixedTokens \cup {<<Host_a, <<Host_a>>>>},
       opt \in {"IPSET_OPT_IP", "IPSET_OPT_IP2"} :
        /\ opt = "IPSET_OPT_IP2" => tok \in Ip2Tokens
        /\ IpCalled("ipset_parse_net", opt, tok,
                    ipset_parse_net(session, opt, tok[1]))

RangeCall ==
    \E tok \in RangeTokens \cup MixedTokens \cup {<<Host_a, <<Host_a>>>>},
       opt \in {"IPSET_OPT_IP", "IPSET_OPT_IP2"} :
        /\ opt = "IPSET_OPT_IP2" => tok \in Ip2Tokens
        /\ IpCalled("ipset_parse_range", opt, tok,
                    ipset_parse_range(session, opt, tok[1]))

IpCall ==
    \E tok \in PlainTokens \cup NetTokens \cup RangeTokens,
       opt \in {"IPSET_OPT_IP", "IPSET_OPT_IP2"} :
        /\ opt = "IPSET_OPT_IP2" => tok \in Ip2Tokens
        /\ IpCalled("ipset_parse_ip", opt, tok,
                    ipset_parse_ip(session, opt, tok[1]))

\* The other parsers that take a range or a network.
IpVariantFns == {"ipset_parse_netrange", "ipset_parse_iprange",
                 "ipset_parse_ipnet", "ipset_parse_ip4_single6"}

IpVariantCall ==
    \E fn \in IpVariantFns, tok \in Ip2Tokens,
       opt \in {"IPSET_OPT_IP", "IPSET_OPT_IP2"} :
        IpCalled(fn, opt, tok,
                 IF fn = "ipset_parse_netrange"
                 THEN ipset_parse_netrange(session, opt, tok[1])
                 ELSE IF fn = "ipset_parse_iprange"
                 THEN ipset_parse_iprange(session, opt, tok[1])
                 ELSE IF fn = "ipset_parse_ipnet"
                 THEN ipset_parse_ipnet(session, opt, tok[1])
                 ELSE ipset_parse_ip4_single6(session, opt, tok[1]))

NextIp ==
    \/ FamilyCall
    \/ SingleIpCall
    \/ NetCall
    \/ RangeCall
    \/ IpCall
    \/ IpVariantCall

SpecIp == Init /\ [][NextIp]_vars

IpFns == {"ipset_parse_single_ip", "ipset_parse_net", "ipset_parse_range",
          "ipset_parse_ip"}
StrictIpFns == {"ipset_parse_single_ip", "ipset_parse_net",
                "ipset_parse_range"}

\* The family an address parse works with: IPv4 when none was given.
EffectiveFamily(s) ==
    IF s.data.family = AF_UNSPEC THEN AF_INET ELSE s.data.family

\* The resolver has an address of the family for the name.
Resolves(h, family) ==
    LET r == getaddrinfo(h, family)
    IN  /\ r.err = 0
        /\ \E i \in 1..Len(r.res) : r.res[i].ai_family = family

Written(opt) ==
    /\ opt \in session.data.flags
    /\ session.data.val[opt] # <<>>

\* The option holds an address the resolver has for the name.
WrittenWith(opt, h, family) ==
    /\ Written(opt)
    /\ LET r == getaddrinfo(h, family)
       IN  \E i \in 1..Len(r.res) :
               /\ r.res[i].ai_family = family
               /\ session.data.val[opt] = <<r.res[i].ai_addr>>

\* The option the last address call writes the address to.
PrimaryOpt ==
    IF call.fn = "ipset_parse_range" THEN "IPSET_OPT_IP" ELSE call.opt

(***************************************************************************)
(* C6 - a failed resolution fails the parse.                               *)
(***************************************************************************)
\* C6 (the claim as stated): an address parse returns a non-zero result
\* whenever the resolution of the address, or of either endpoint of a
\* range, fails or yields no address usable for the family; a zero result
\* implies the primary option (and, for a range, the "-to" option) was
\* written with a resolved address.
C6_Claim ==
    (call.fn \in IpFns /\ call.arg # <<>>) =>
        LET family == EffectiveFamily(prev) IN
        /\ (\E i \in 1..Len(call.arg) : ~Resolves(call.arg[i], family))
               => ret # 0
        /\ ret = 0 =>
               /\ WrittenWith(PrimaryOpt, call.arg[1], family)
               /\ Len(call.arg) = 2
                      => WrittenWith("IPSET_OPT_IP_TO", call.arg[2], family)

\* What the code keeps of C6: a name the resolver rejects fails the parse.
C6_ResolverErrorFails ==
    (call.fn \in IpFns /\ call.arg # <<>>) =>
        ((\E i \in 1..Len(call.arg) :
              getaddrinfo(call.arg[i], EffectiveFamily(prev)).err # 0)
            => ret # 0)

C6_Witness ==
    /\ call.fn \in IpFns
    /\ call.arg = <<Host_n>>
    /\ ret = 0
    /\ ~Written(call.opt)

(***************************************************************************)
(* C9 - "A/32" where a plain address is required.                          *)
(***************************************************************************)
HostLen(family) == IF family = AF_INET THEN Len32 ELSE Len128

HostCidrCall ==
    /\ call.fn = "ipset_parse_single_ip"
    /\ Len(call.arg) = 1
    /\ call.str = Cidr(call.arg[1], HostLen(EffectiveFamily(prev)))

\* C9 (the claim as stated): ipset_parse_single_ip on "A/32" with family
\* IPv4 (or "A/128" with IPv6) returns what parsing "A" returns and leaves
\* the same store: the same option values and the same set-bits.
C9_Claim ==
    HostCidrCall =>
        LET plain == ipset_parse_single_ip(prev, call.opt, call.arg[1])
        IN  /\ ret = plain.ret
            /\ session.data = plain.s.data

PairedCidr(opt) ==
    IF opt = "IPSET_OPT_IP" THEN "IPSET_OPT_CIDR" ELSE "IPSET_OPT_CIDR2"

\* C9 (amended): "A/32" (IPv4) or "A/128" (IPv6) returns what parsing "A"
\* returns and leaves the store parsing "A" leaves, but for the CIDR option
\* paired with the address option: it is written with 32 (128) and its
\* set-bit is raised.
C9_HostCidr ==
    HostCidrCall =>
        LET plain == ipset_parse_single_ip(prev, call.opt, call.arg[1])
            m == IF EffectiveFamily(prev) = AF_INET THEN 32 ELSE 128
        IN  /\ ret = plain.ret
            /\ session.report = plain.s.report
            /\ session.data
                   = ipset_data_set(plain.s.data, PairedCidr(call.opt), m)

C9_Witness ==
    /\ HostCidrCall
    /\ prev.data.family = AF_INET6
    /\ ret = 0
    /\ Written(call.opt)
    /\ session.data.val[PairedCidr(call.opt)] = <<128>>

(***************************************************************************)
(* C10 - a CIDR and a range separator in one token.                        *)
(***************************************************************************)
BothSeparators(str) ==
    /\ Interior(str, IPSET_CIDR_SEPARATOR[1]) # {}
    /\ Interior(str, IPSET_RANGE_SEPARATOR[1]) # {}

AddrOpts == {"IPSET_OPT_IP", "IPSET_OPT_IP_TO", "IPSET_OPT_IP2",
             "IPSET_OPT_CIDR", "IPSET_OPT_CIDR2"}

AddrUntouched ==
    \A o \in AddrOpts :
        /\ session.data.val[o] = prev.data.val[o]
        /\ (o \in session.data.flags) = (o \in prev.data.flags)

\* C10 (the claim as stated): a token with a CIDR and a range separator,
\* each at an interior position, is rejected with a syntax error by the
\* plain, the network and the range variant before any address or mask
\* option is written.
C10_Claim ==
    (call.fn \in StrictIpFns /\ BothSeparators(call.str)) =>
        /\ ret # 0
        /\ Len(session.report) > Len(prev.report)
        /\ AddrUntouched

\* What the code keeps of C10: the claim for the tokens that neither begin
\* nor end with one of the two separators.
C10_CodeKeeps ==
    (/\ call.fn \in StrictIpFns
     /\ BothSeparators(call.str)
     /\ call.str[1] \notin {"/", "-"}
     /\ call.str[Len(call.str)] \notin {"/", "-"}) =>
        /\ ret # 0
        /\ Len(session.report) > Len(prev.report)
        /\ AddrUntouched

C10_Witness ==
    /\ call.fn = "ipset_parse_net"
    /\ BothSeparators(call.str)
    /\ call.str[1] = "-"
    /\ Written("IPSET_OPT_CIDR")
    /\ ~("IPSET_OPT_CIDR" \in prev.data.flags)

(***************************************************************************)
(* C7 - the tokenizer.                                                     *)
(***************************************************************************)
\* C7 (the claim as stated): ipset_strchr returns "none" when c occurs in s
\* only as the first or last character, and returns the position of c when
\* c occurs at an interior position of s, also when s begins or ends with c.
C7_Claim ==
    call.fn = "ipset_strchr" =>
        LET c == call.arg[1] IN
        /\ (Occurs(call.str, c) # {} /\ Interior(call.str, c) = {})
               => ret = NULL
        /\ Interior(call.str, c) # {} => ret \in Interior(call.str, c)

\* What the code does keep: a non-NULL result is the first occurrence of c,
\* it is interior, and s neither begins nor ends with c.
C7_CodeKeeps ==
    call.fn = "ipset_strchr" =>
        LET c == call.arg[1]
            s == call.str IN
        /\ ret # NULL <=> (Interior(s, c) # {} /\ s[1] # c /\ s[Len(s)] # c)
        /\ ret # NULL => (ret \in Interior(s, c)
                          /\ \A i \in Occurs(s, c) : ret <= i)

C7_Witness ==
    /\ call.fn = "ipset_strchr"
    /\ Interior(call.str, call.arg[1]) # {}
    /\ call.str[1] = call.arg[1]
    /\ ret = NULL
(***************************************************************************)
(* Port calls.                                                             *)
(***************************************************************************)
\* The hexadecimal and the octal digits of n.
RECURSIVE HexDigits(_)
HexDigits(n) == IF n < 16 THEN <<Digits[n + 1]>>
                ELSE Append(HexDigits(n \div 16), Digits[(n % 16) + 1])

RECURSIVE OctDigits(_)
OctDigits(n) == IF n < 8 THEN <<Digits[n + 1]>>
                ELSE Append(OctDigits(n \div 8), Digits[(n % 8) + 1])

Hex(n) == <<"0", "x">> \o HexDigits(n)
Oct(n) == <<"0">> \o OctDigits(n)

PortNums == {0, 80, USHRT_MAX, USHRT_MAX + 1}
PortForms == {"Dec", "Hex", "Oct"}
PortNames == {Str_http, Str_ftp_data, <<"x">>}
PortProtos == {Str_tcp, Str_udp, Str_TCP}
PortOpts == {"IPSET_OPT_PORT", "IPSET_OPT_PORT_TO"}

\* The string of a port: <<n, form>> is the number n written in the form, and
\* <<name>> is the name.
PortStr(p) ==
    IF Len(p) = 1 THEN p[1]
    ELSE IF p[2] = "Dec" THEN Dec(p[1])
    ELSE IF p[2] = "Hex" THEN Hex(p[1])
    ELSE Oct(p[1])

PortArgs == {<<n, f>> : n \in PortNums, f \in PortForms}
                \cup {<<name>> : name \in PortNames}

\* ipset_parse_port on one port; arg = [proto, port].
PortCall ==
    /\ \E opt \in PortOpts, proto \in PortProtos, p \in PortArgs :
          Called("ipset_parse_port", opt, PortStr(p),
                 [proto |-> proto, port |-> p],
                 ipset_parse_port(session, opt, PortStr(p), proto))
    /\ calls' = <<>>

\* ipset_parse_tcpudp_port on "LO-HI" (arg.lo, arg.hi) or on one port
\* (arg.hi = <<>>).
TcpudpPortArgs == {<<80, "Dec">>, <<USHRT_MAX + 1, "Dec">>,
                   <<Str_http>>, <<Str_ftp_data>>, <<<<"x">>>>}

TcpudpPortCall ==
    /\ \E proto \in {Str_tcp, Str_udp},
          lo \in TcpudpPortArgs, hi \in TcpudpPortArgs \cup {<<>>} :
          LET str == IF hi = <<>> THEN PortStr(lo)
                     ELSE PortStr(lo) \o IPSET_RANGE_SEPARATOR \o PortStr(hi)
          IN  Called("ipset_parse_tcpudp_port", "IPSET_OPT_PORT", str,
                     [proto |-> proto, lo |-> lo, hi |-> hi],
                     ipset_parse_tcpudp_port(session, "IPSET_OPT_PORT", str,
                                             proto))
    /\ calls' = <<>>

NextPort == PortCall \/ TcpudpPortCall

SpecPort == Init /\ [][NextPort]_vars

\* The port a valid port argument stands for with the protocol: a number of
\* 0..65535 is itself, "http" is 80 for tcp and udp, "ftp-data" is 20 for tcp.
\* <<>> when the argument is no valid port.
ValidPort(p, proto) ==
    IF Len(p) = 2
    THEN IF p[1] <= 65535 THEN <<p[1]>> ELSE <<>>
    ELSE IF p[1] = Str_http /\ proto \in {Str_tcp, Str_udp} THEN <<80>>
    ELSE IF p[1] = Str_ftp_data /\ proto = Str_tcp THEN <<20>>
    ELSE <<>>

(***************************************************************************)
(* C11                                                                     *)
(***************************************************************************)
\* C11: ipset_parse_port succeeds when the string is a number in 0..65535 or
\* a service name known for the protocol, stores that port under the option
\* asked for, and leaves no error of the strategy that failed in the report
\* of the session: the report is empty.
C11_PortStored ==
    (/\ call.fn = "ipset_parse_port"
     /\ ValidPort(call.arg.port, call.arg.proto) # <<>>)
    => /\ ret = 0
       /\ session.data.val[call.opt]
              = ValidPort(call.arg.port, call.arg.proto)
       /\ session.report = <<>>

\* "http" with tcp gave port 80 and an empty report, after the number
\* strategy had failed on it and the call before had left an error.
C11_Witness ==
    /\ call.fn = "ipset_parse_port"
    /\ call.str = Str_http
    /\ call.arg.proto = Str_tcp
    /\ string_to_u16(prev, call.str).ret # 0
    /\ prev.report # <<>>
    /\ ret = 0
    /\ session.data.val[call.opt] = <<80>>
    /\ session.report = <<>>

(***************************************************************************)
(* C12 - port ranges.                                                      *)
(***************************************************************************)
RangeOfPorts ==
    /\ call.fn = "ipset_parse_tcpudp_port"
    /\ call.arg.hi # <<>>
    /\ ValidPort(call.arg.lo, call.arg.proto) # <<>>
    /\ ValidPort(call.arg.hi, call.arg.proto) # <<>>

NoInteriorRangeSeparator ==
    /\ call.fn = "ipset_parse_tcpudp_port"
    /\ Interior(call.str, IPSET_RANGE_SEPARATOR[1]) = {}

\* C12 (the claim as stated): ipset_parse_tcpudp_port given "LO-HI" with both
\* sides valid ports stores LO under the port option and HI under the port-to
\* option; given a string without an interior range separator it stores a
\* single port and leaves port-to as it was.
C12_Claim ==
    /\ RangeOfPorts
           => /\ ret = 0
              /\ session.data.val["IPSET_OPT_PORT"]
                     = ValidPort(call.arg.lo, call.arg.proto)
              /\ session.data.val["IPSET_OPT_PORT_TO"]
                     = ValidPort(call.arg.hi, call.arg.proto)
    /\ NoInteriorRangeSeparator
           => /\ session.data.val["IPSET_OPT_PORT_TO"]
                     = prev.data.val["IPSET_OPT_PORT_TO"]
              /\ ValidPort(call.arg.lo, call.arg.proto) # <<>>
                     => /\ ret = 0
                        /\ session.data.val["IPSET_OPT_PORT"]
                               = ValidPort(call.arg.lo, call.arg.proto)

\* What the code keeps of C12: the claim for every LO that holds no range
\* separator itself, and the single port.
C12_CodeKeeps ==
    /\ (/\ RangeOfPorts
        /\ Occurs(PortStr(call.arg.lo), IPSET_RANGE_SEPARATOR[1]) = {})
           => /\ ret = 0
              /\ session.data.val["IPSET_OPT_PORT"]
                     = ValidPort(call.arg.lo, call.arg.proto)
              /\ session.data.val["IPSET_OPT_PORT_TO"]
                     = ValidPort(call.arg.hi, call.arg.proto)
    /\ NoInteriorRangeSeparator
           => /\ session.data.val["IPSET_OPT_PORT_TO"]
                     = prev.data.val["IPSET_OPT_PORT_TO"]
              /\ ValidPort(call.arg.lo, call.arg.proto) # <<>>
                     => /\ ret = 0
                        /\ session.data.val["IPSET_OPT_PORT"]
                               = ValidPort(call.arg.lo, call.arg.proto)

\* "ftp-data-80" with tcp: both sides are valid ports and the call failed.
C12_Witness ==
    /\ RangeOfPorts
    /\ call.arg.lo = <<Str_ftp_data>>
    /\ call.arg.hi = <<80, "Dec">>
    /\ ret # 0
    /\ session.data.val["IPSET_OPT_PORT"] = <<>>

(***************************************************************************)
(* Ethernet address calls.                                                 *)
(***************************************************************************)
\* What stands at one octet position, and after it.
EtherOctets == {<<"0", "a">>, <<"F", "f">>, <<" ", "5">>, <<"+", "5">>,
                <<"-", "0">>, <<"-", "5">>, <<"0", "x">>, <<"g", "0">>,
                <<"5">>, <<"0", "0", "5">>}
EtherSeparators == {<<":">>, <<"-">>, <<"0">>}

RECURSIVE EtherStr(_, _, _, _)
EtherStr(i, pos, octet, sep) ==
    IF i > ETH_ALEN THEN <<>>
    ELSE (IF i = pos THEN octet ELSE <<"0", Digits[i + 1]>>)
         \o (IF i = ETH_ALEN THEN <<>>
             ELSE IF i = pos THEN sep ELSE <<":">>)
         \o EtherStr(i + 1, pos, octet, sep)

\* ipset_parse_ether on "01:02:03:04:05:06" with the octet at one position,
\* and the separator after it, replaced; arg = <<position, octet, separator>>.
EtherCall ==
    /\ \E pos \in 1..ETH_ALEN, octet \in EtherOctets, sep \in EtherSeparators :
          /\ sep # <<":">> => octet = <<"0", "a">>
          /\ Called("ipset_parse_ether", "IPSET_OPT_ETHER",
                    EtherStr(1, pos, octet, sep), <<pos, octet, sep>>,
                    ipset_parse_ether(session, "IPSET_OPT_ETHER",
                                      EtherStr(1, pos, octet, sep)))
    /\ calls' = <<>>

NextEther == EtherCall

SpecEther == Init /\ [][NextEther]_vars

(***************************************************************************)
(* C13 - ethernet addresses.                                               *)
(***************************************************************************)
\* Six two-digit hexadecimal octets separated by colons.
SixOctets(str) ==
    /\ Len(str) = 17
    /\ \A i \in 0..5 : /\ IsDigit(str[3 * i + 1], 16)
                       /\ IsDigit(str[3 * i + 2], 16)
                       /\ i < 5 => str[3 * i + 3] = ":"

\* C13 (the claim as stated): ipset_parse_ether succeeds only for strings
\* that are exactly six two-digit hexadecimal octets separated by colons;
\* every other string, one with a space or a sign and a single digit at an
\* octet position included, is rejected and the ether option is not written.
C13_Claim ==
    (call.fn = "ipset_parse_ether" /\ ~SixOctets(call.str))
    => /\ ret # 0
       /\ session.data = prev.data

\* What the code keeps of C13: six two-digit octets are accepted and stored,
\* a rejected string writes nothing and is reported, and a string is rejected
\* when it has not 17 characters, when an octet position does not begin with
\* a hexadecimal digit, a space or a sign, or when a separator is no colon.
C13_CodeKeeps ==
    call.fn = "ipset_parse_ether"
    => /\ SixOctets(call.str)
              => /\ ret = 0
                 /\ "IPSET_OPT_ETHER" \in session.data.flags
                 /\ \A i \in 1..6 :
                       session.data.val["IPSET_OPT_ETHER"][1][i]
                           = 16 * DigitVal(call.str[3 * i - 2])
                                 + DigitVal(call.str[3 * i - 1])
       /\ ret # 0 => /\ session.data = prev.data
                     /\ Len(session.report) = Len(prev.report) + 1
       /\ (\/ Len(call.str) # 17
           \/ \E i \in 0..5 :
                 \/ ~(\/ IsDigit(call.str[3 * i + 1], 16)
                      \/ isspace(call.str[3 * i + 1])
                      \/ call.str[3 * i + 1] \in {"+", "-"})
                 \/ ~IsDigit(call.str[3 * i + 2], 16)
                 \/ (i < 5 /\ call.str[3 * i + 3] # ":"))
              => ret # 0

\* An address with " 5" at an octet position was accepted, with 5 as the
\* octet.
C13_Witness ==
    /\ call.fn = "ipset_parse_ether"
    /\ call.arg[2] = <<" ", "5">>
    /\ ~SixOctets(call.str)
    /\ ret = 0
    /\ session.data.val["IPSET_OPT_ETHER"][1][call.arg[1]] = 5

(***************************************************************************)
(* Set name calls.                                                         *)
(***************************************************************************)
NameFields == {<<"a">>, <<"b">>, Str_before, Str_after, <<>>}
NameArgs == {<<f>> : f \in NameFields}
                \cup {<<f, g>> : f \in NameFields, g \in NameFields}
                \cup {<<f, g, h>> : f \in NameFields, g \in NameFields,
                                    h \in NameFields}

\* The fields joined by the element separator.
NameStr(arg) ==
    IF Len(arg) = 1 THEN arg[1]
    ELSE IF Len(arg) = 2 THEN arg[1] \o IPSET_ELEM_SEPARATOR \o arg[2]
    ELSE arg[1] \o IPSET_ELEM_SEPARATOR \o arg[2]
                \o IPSET_ELEM_SEPARATOR \o arg[3]

\* ipset_parse_name_compat on one to three fields; arg = the fields.
NameCompatCall ==
    /\ \E arg \in NameArgs :
          Called("ipset_parse_name_compat", "IPSET_OPT_NAME", NameStr(arg),
                 arg,
                 ipset_parse_name_compat(session, "IPSET_OPT_NAME",
                                         NameStr(arg)))
    /\ calls' = <<>>

NextNameCompat == NameCompatCall

SpecNameCompat == Init /\ [][NextNameCompat]_vars

(***************************************************************************)
(* C14 - "setname,before|after,setname".                                   *)
(***************************************************************************)
NameOpts == {"IPSET_OPT_NAME", "IPSET_OPT_NAMEREF", "IPSET_OPT_BEFORE"}

\* "N,<word>,R" with set names N and R.
NameRefCall(word) ==
    /\ call.fn = "ipset_parse_name_compat"
    /\ Len(call.arg) = 3
    /\ call.arg[1] # <<>>
    /\ call.arg[2] = word
    /\ call.arg[3] # <<>>

NameRefStored ==
    /\ ret = 0
    /\ session.data.val["IPSET_OPT_NAME"] = <<call.arg[1]>>
    /\ session.data.val["IPSET_OPT_NAMEREF"] = <<call.arg[3]>>

\* An interior element separator, and the second field is not "before" or
\* "after" or there is no third field.
BadNameRef ==
    /\ call.fn = "ipset_parse_name_compat"
    /\ Interior(call.str, IPSET_ELEM_SEPARATOR[1]) # {}
    /\ \/ Len(call.arg) < 3
       \/ call.arg[2] \notin {Str_before, Str_after}

NamesUntouched ==
    /\ \A o \in NameOpts : session.data.val[o] = prev.data.val[o]
    /\ session.data.flags \cap NameOpts = prev.data.flags \cap NameOpts

\* C14 (the claim as stated): "N,before,R" sets name = N, nameref = R and the
\* before marker; "N,after,R" sets name = N and nameref = R without the
\* before marker; a string with an interior element separator whose second
\* field is not "before" or "after", or that has no third field, fails and
\* writes none of name, nameref and before.
C14_Claim ==
    /\ NameRefCall(Str_before)
           => /\ NameRefStored
              /\ "IPSET_OPT_BEFORE" \in session.data.flags
    /\ NameRefCall(Str_after)
           => /\ NameRefStored
              /\ session.data.val["IPSET_OPT_BEFORE"]
                     = prev.data.val["IPSET_OPT_BEFORE"]
              /\ ("IPSET_OPT_BEFORE" \in session.data.flags)
                     = ("IPSET_OPT_BEFORE" \in prev.data.flags)
    /\ BadNameRef => (ret # 0 /\ NamesUntouched)

\* What the code keeps of C14: "N,before,R" and "N,after,R" as claimed, and
\* the failure for the strings that neither begin nor end with the separator.
C14_CodeKeeps ==
    /\ NameRefCall(Str_before)
           => /\ NameRefStored
              /\ "IPSET_OPT_BEFORE" \in session.data.flags
    /\ NameRefCall(Str_after)
           => /\ NameRefStored
              /\ session.data.val["IPSET_OPT_BEFORE"]
                     = prev.data.val["IPSET_OPT_BEFORE"]
              /\ ("IPSET_OPT_BEFORE" \in session.data.flags)
                     = ("IPSET_OPT_BEFORE" \in prev.data.flags)
    /\ (/\ BadNameRef
        /\ call.str[1] # IPSET_ELEM_SEPARATOR[1]
        /\ call.str[Len(call.str)] # IPSET_ELEM_SEPARATOR[1])
           => (ret # 0 /\ NamesUntouched)

\* "a,b," has an interior separator and "b" as its second field: the call
\* returned 0 and the whole string is the name.
C14_Witness ==
    /\ BadNameRef
    /\ call.arg = <<<<"a">>, <<"b">>, <<>>>>
    /\ ret = 0
    /\ session.data.val["IPSET_OPT_NAME"] = <<call.str>>

(***************************************************************************)
(* Number calls.                                                           *)
(***************************************************************************)
\* A numeric string, its value as an unsigned long long, and whether the
\* digits overflow 64 bits (the value is then of no use).
NumCase(str, value, overflow) ==
    [str |-> str, value |-> value, overflow |-> overflow, negative |-> FALSE]

SmallNums == {0, 1, 8, UCHAR_MAX, UCHAR_MAX + 1, USHRT_MAX, USHRT_MAX + 1}

NumCases ==
    {NumCase(Dec(n), ULL(n), FALSE) : n \in SmallNums}
    \cup {NumCase(Hex(n), ULL(n), FALSE) : n \in SmallNums}
    \cup {NumCase(Oct(n), ULL(n), FALSE) : n \in SmallNums}
    \cup {NumCase(<<"4", "2", "9", "4", "9", "6", "7", "2", "9", "5">>,
                  <<65535, 65535, 0, 0>>, FALSE),
          NumCase(<<"4", "2", "9", "4", "9", "6", "7", "2", "9", "6">>,
                  <<0, 0, 1, 0>>, FALSE),
          NumCase(<<"0", "x", "F", "F", "F", "F", "f", "f", "f", "f">>,
                  <<65535, 65535, 0, 0>>, FALSE),
          NumCase(<<"1", "8", "4", "4", "6", "7", "4", "4", "0", "7", "3",
                    "7", "0", "9", "5", "5", "1", "6", "1", "5">>,
                  <<65535, 65535, 65535, 65535>>, FALSE),
          NumCase(<<"1", "8", "4", "4", "6", "7", "4", "4", "0", "7", "3",
                    "7", "0", "9", "5", "5", "1", "6", "1", "6">>,
                  <<0, 0, 0, 0>>, TRUE),
          NumCase(<<"0", "x", "1", "0", "0", "0", "0", "0", "0", "0", "0",
                    "0", "0", "0", "0", "0", "0", "0", "0">>,
                  <<0, 0, 0, 0>>, TRUE)}

\* "-N": value is N.
NegativeCases ==
    {[str |-> <<"-", "1">>, value |-> ULL(1), overflow |-> FALSE,
      negative |-> TRUE],
     [str |-> <<"-", "1", "8", "4", "4", "6", "7", "4", "4", "0", "7", "3",
                "7", "0", "9", "5", "5", "1", "6", "1", "5">>,
      value |-> <<65535, 65535, 65535, 65535>>, overflow |-> FALSE,
      negative |-> TRUE]}

NumGarbage == {<<>>, <<"x">>, <<" ">>}

\* [min, max] of string_to_number_ll; a max of 0 is no maximum.
NumBounds == {<<ULL(1), ULL(UCHAR_MAX)>>, <<ULL(0), ULL(0)>>}

NumFns == {"string_to_number_ll", "string_to_u8", "string_to_u16",
           "string_to_u32"}

\* One of the numeric parsers on a numeric string followed by garbage: arg =
\* [case, garbage, min, max], and calls holds the number that the parser
\* wrote through its ret pointer (0 when it failed), widened to an unsigned
\* long long.
NumberCall ==
    \E fn \in NumFns, c \in NumCases \cup NegativeCases, g \in NumGarbage,
       b \in NumBounds :
       LET Parsed(min, max, r) ==
               /\ Called(fn, "none", c.str \o g,
                         [case |-> c, garbage |-> g, min |-> min, max |-> max],
                         r)
               /\ calls' = <<IF fn = "string_to_number_ll" THEN r.num
                             ELSE IF fn = "string_to_u32"
                             THEN <<r.num[1], r.num[2], 0, 0>>
                             ELSE ULL(r.num)>>
       IN  /\ fn # "string_to_number_ll" => b = <<ULL(0), ULL(0)>>
           /\ IF fn = "string_to_number_ll"
              THEN Parsed(b[1], b[2],
                          string_to_number_ll(session, c.str \o g, b[1], b[2]))
              ELSE IF fn = "string_to_u8"
              THEN Parsed(ULL(0), ULL(UCHAR_MAX),
                          string_to_u8(session, c.str \o g))
              ELSE IF fn = "string_to_u16"
              THEN Parsed(ULL(0), ULL(USHRT_MAX),
                          string_to_u16(session, c.str \o g))
              ELSE Parsed(ULL(0), UINT_MAX,
                          string_to_u32(session, c.str \o g))

NextNumber == NumberCall

SpecNumber == Init /\ [][NextNumber]_vars

(***************************************************************************)
(* C15 - the numeric parser.                                               *)
(***************************************************************************)
NumberCalled == call.fn \in NumFns

\* The number written through the ret pointer.
NumberReturned == calls[1]

\* The value of the numeric string lies in [min, max].
NumberInRange ==
    /\ ~call.arg.case.overflow
    /\ ull_le(call.arg.min, call.arg.case.value)
    /\ (call.arg.max = ULL(0) \/ ull_le(call.arg.case.value, call.arg.max))

FailedWith(msg) ==
    /\ ret # 0
    /\ Len(session.report) = Len(prev.report) + 1
    /\ session.report[Len(session.report)] = <<"error", msg>>

\* C15 (the claim as stated): for every valid decimal, 0x-hexadecimal or
\* 0-octal string whose value lies in [min, max] the numeric parser returns
\* exactly that value; for every numeric string whose value lies outside
\* [min, max] it fails with the out-of-range diagnostic; for every string
\* with trailing non-numeric characters it fails with the not-a-number
\* diagnostic, also when the numeric prefix overflows the conversion.
C15_Claim ==
    (NumberCalled /\ ~call.arg.case.negative)
    => /\ (call.arg.garbage = <<>> /\ NumberInRange)
              => (ret = 0 /\ NumberReturned = call.arg.case.value)
       /\ (call.arg.garbage = <<>> /\ ~NumberInRange)
              => FailedWith("is out of range")
       /\ call.arg.garbage # <<>>
              => FailedWith("is invalid as number")

\* What the code keeps of C15: the value of a string in range, the
\* out-of-range failure, and the not-a-number failure when the numeric prefix
\* fits 64 bits; a prefix that overflows is reported as out of range.  "-N"
\* is read as 2^64 - N.
C15_CodeKeeps ==
    /\ (NumberCalled /\ ~call.arg.case.negative)
       => /\ (call.arg.garbage = <<>> /\ NumberInRange)
                 => (ret = 0 /\ NumberReturned = call.arg.case.value)
          /\ (call.arg.garbage = <<>> /\ ~NumberInRange)
                 => FailedWith("is out of range")
          /\ (call.arg.garbage # <<>> /\ ~call.arg.case.overflow)
                 => FailedWith("is invalid as number")
          /\ (call.arg.garbage # <<>> /\ call.arg.case.overflow)
                 => FailedWith("is out of range")
    /\ (NumberCalled /\ call.arg.case.negative /\ call.arg.garbage = <<>>)
       => IF /\ ull_le(call.arg.min, ull_neg(call.arg.case.value))
             /\ \/ call.arg.max = ULL(0)
                \/ ull_le(ull_neg(call.arg.case.value), call.arg.max)
          THEN ret = 0 /\ NumberReturned = ull_neg(call.arg.case.value)
          ELSE FailedWith("is out of range")
    /\ (NumberCalled /\ ret # 0) => NumberReturned = ULL(0)
    /\ NumberCalled => session.data = prev.data

\* "18446744073709551616x" given to string_to_u32: the digits overflow, the x
\* is no digit, and the failure is reported as out of range.
C15_Witness ==
    /\ call.fn = "string_to_u32"
    /\ call.arg.case.overflow
    /\ call.arg.garbage = <<"x">>
    /\ ret # 0
    /\ session.report[Len(session.report)] = <<"error", "is out of range">>

(***************************************************************************)
(* Address-bearing calls, with the family and the timeout.                 *)
(***************************************************************************)
AddrFns == {"ipset_parse_ip", "ipset_parse_single_ip", "ipset_parse_net",
            "ipset_parse_range", "ipset_parse_netrange",
            "ipset_parse_iprange", "ipset_parse_ipnet",
            "ipset_parse_ip4_single6", "ipset_parse_netmask"}

AddrStrings == {Host_a, Host_x, Cidr(Host_a, Len24), Range(Host_a, Host_m),
                Len24}

\* One of the parsers that work with the family of the store.
AddrCall ==
    /\ \E fn \in AddrFns, str \in AddrStrings :
          LET opt == IF fn = "ipset_parse_netmask" THEN "IPSET_OPT_NETMASK"
                     ELSE "IPSET_OPT_IP"
          IN  Called(fn, opt, str, NoArg,
                     IF fn = "ipset_parse_netmask"
                     THEN ipset_parse_netmask(session, opt, str)
                     ELSE IF fn = "ipset_parse_netrange"
                     THEN ipset_parse_netrange(session, opt, str)
                     ELSE IF fn = "ipset_parse_iprange"
                     THEN ipset_parse_iprange(session, opt, str)
                     ELSE IF fn = "ipset_parse_ipnet"
                     THEN ipset_parse_ipnet(session, opt, str)
                     ELSE IF fn = "ipset_parse_ip4_single6"
                     THEN ipset_parse_ip4_single6(session, opt, str)
                     ELSE CallParser(fn, session, opt, str))
    /\ calls' = <<>>

\* A timeout string and its value as <<low half, high half>>, <<>> when it
\* is no unsigned 32-bit number.
TimeoutCases ==
    {<<<<"5">>, <<<<5, 0>>>>>>,
     <<<<"4", "2", "9", "4", "9", "6", "7", "2", "9", "5">>,
       <<<<65535, 65535>>>>>>,
     <<<<"4", "2", "9", "4", "9", "6", "7", "2", "9", "6">>, <<>>>>,
     <<<<"x">>, <<>>>>,
     <<<<>>, <<>>>>}

TimeoutHosts == {Host_a, Host_n, Host_x, <<>>}

\* ipset_parse_iptimeout on "ADDR,T" (arg = <<ADDR, <<T, value>>>>) or on
\* ADDR alone (arg = <<ADDR>>).
IptimeoutCall ==
    /\ \E arg \in {<<h, c>> : h \in TimeoutHosts, c \in TimeoutCases}
                  \cup {<<h>> : h \in TimeoutHosts} :
          LET str == IF Len(arg) = 2
                     THEN arg[1] \o IPSET_ELEM_SEPARATOR \o arg[2][1]
                     ELSE arg[1]
          IN  Called("ipset_parse_iptimeout", "IPSET_OPT_IP", str, arg,
                     ipset_parse_iptimeout(session, "IPSET_OPT_IP", str))
    /\ calls' = <<>>

NextFamily == FamilyCall \/ AddrCall \/ IptimeoutCall

SpecFamily == Init /\ [][NextFamily]_vars

\* The last report of the session is this error, made by the last call.
LastError(msg) ==
    /\ Len(session.report) = Len(prev.report) + 1
    /\ session.report[Len(session.report)] = <<"error", msg>>

(***************************************************************************)
(* C16 - the family of the store.                                          *)
(***************************************************************************)
AddrBearing == call.fn \in AddrFns \cup {"ipset_parse_iptimeout"}

\* C16 (the claim as stated): the first address-bearing parse on a store
\* with unspecified family sets the family to IPv4; once the family is IPv4
\* or IPv6 it never changes to a different value without a diagnostic being
\* logged in the same call; no address-bearing parse changes an already
\* specified family.
C16_Claim ==
    /\ (AddrBearing /\ prev.data.family = AF_UNSPEC)
           => session.data.family = AF_INET
    /\ (/\ prev.data.family \in {AF_INET, AF_INET6}
        /\ session.data.family # prev.data.family)
           => Len(session.report) > Len(prev.report)
    /\ (AddrBearing /\ prev.data.family # AF_UNSPEC)
           => session.data.family = prev.data.family

\* The parser rejected the string with its own syntax error, which it does
\* before it calls parse_ip.
RejectedBeforeParseIp ==
    /\ ret # 0
    /\ \/ /\ call.fn = "ipset_parse_netrange"
          /\ LastError("IP/cidr or IP-IP range must be specified")
       \/ /\ call.fn = "ipset_parse_iprange"
          /\ LastError("IP address or IP-IP range must be specified")
       \/ /\ call.fn = "ipset_parse_ipnet"
          /\ LastError("IP address or IP/cidr must be specified")
       \/ /\ call.fn = "ipset_parse_iptimeout"
          /\ \/ LastError("Missing separator")
             \/ LastError("mixed syntax, timeout already specified")

\* C16 (amended): as the claim, but an address-bearing parse that rejects the
\* string with its own syntax error before it calls parse_ip
\* (ipset_parse_netrange, ipset_parse_iprange, ipset_parse_ipnet,
\* ipset_parse_iptimeout) leaves the store, and with it an unspecified
\* family, as it was.
C16_FamilySticky ==
    /\ (AddrBearing /\ prev.data.family = AF_UNSPEC)
           => IF RejectedBeforeParseIp
              THEN session.data = prev.data
              ELSE session.data.family = AF_INET
    /\ (/\ prev.data.family \in {AF_INET, AF_INET6}
        /\ session.data.family # prev.data.family)
           => /\ call.fn = "ipset_parse_family"
              /\ Len(session.report) > Len(prev.report)
    /\ (AddrBearing /\ prev.data.family # AF_UNSPEC)
           => session.data.family = prev.data.family

\* An address parse made the family IPv4, and ipset_parse_family then made
\* it IPv6 and logged the error.
C16_Witness ==
    /\ call.fn = "ipset_parse_family"
    /\ "IPSET_OPT_IP" \in prev.data.flags
    /\ prev.data.family = AF_INET
    /\ session.data.family = AF_INET6
    /\ Len(session.report) > Len(prev.report)

(***************************************************************************)
(* C17 - "IP,timeout".                                                     *)
(***************************************************************************)
IptimeoutCalled == call.fn = "ipset_parse_iptimeout"

TimeoutSet == "IPSET_OPT_TIMEOUT" \in prev.data.flags

\* C17 (the claim as stated): a string without an interior element separator
\* fails with the missing-separator error and writes neither address nor
\* timeout; "ADDR,T" succeeds only if ADDR parses as an address and T as an
\* unsigned 32-bit integer, and then both are stored; if the timeout option
\* is already set the call fails before it writes anything.
C17_Claim ==
    IptimeoutCalled
    => /\ (~TimeoutSet /\ Interior(call.str, IPSET_ELEM_SEPARATOR[1]) = {})
              => /\ ret # 0
                 /\ LastError("Missing separator")
                 /\ session.data = prev.data
       /\ TimeoutSet => (ret # 0 /\ session.data = prev.data)
       /\ ret = 0
              => /\ Len(call.arg) = 2
                 /\ Resolves(call.arg[1], EffectiveFamily(prev))
                 /\ WrittenWith("IPSET_OPT_IP", call.arg[1],
                                EffectiveFamily(prev))
                 /\ call.arg[2][2] # <<>>
                 /\ session.data.val["IPSET_OPT_TIMEOUT"] = call.arg[2][2]

\* What the code keeps of C17: the two failures, and on success the timeout;
\* the address is stored when the resolver has one of the family.
C17_CodeKeeps ==
    IptimeoutCalled
    => /\ (~TimeoutSet /\ Interior(call.str, IPSET_ELEM_SEPARATOR[1]) = {})
              => /\ ret # 0
                 /\ LastError("Missing separator")
                 /\ session.data = prev.data
       /\ TimeoutSet => (ret # 0 /\ session.data = prev.data)
       /\ ret = 0
              => /\ Len(call.arg) = 2
                 /\ call.arg[2][2] # <<>>
                 /\ session.data.val["IPSET_OPT_TIMEOUT"] = call.arg[2][2]
                 /\ Resolves(call.arg[1], EffectiveFamily(prev))
                        => WrittenWith("IPSET_OPT_IP", call.arg[1],
                                       EffectiveFamily(prev))

\* "n,5": the resolver has no address of the family for n, the call returned
\* 0 and stored the timeout without an address.
C17_Witness ==
    /\ IptimeoutCalled
    /\ Len(call.arg) = 2
    /\ call.arg[1] = Host_n
    /\ ~Resolves(call.arg[1], EffectiveFamily(prev))
    /\ ret = 0
    /\ "IPSET_OPT_IP" \notin session.data.flags
    /\ session.data.val["IPSET_OPT_TIMEOUT"] = <<<<5, 0>>>>

(***************************************************************************)
(* C18 - an element separator and a type of dimension one.                 *)
(***************************************************************************)
InteriorSeparators(str) == Interior(str, IPSET_ELEM_SEPARATOR[1])

SeparatorInDimOne ==
    /\ ElemCalled
    /\ ElemType.dimension = IPSET_DIM_ONE
    /\ InteriorSeparators(call.str) # {}

\* The compat parser of the type was called once with the whole string and
\* the option of dimension one, its result is the result of the call, and no
\* field parser was called.
CompatDelegated ==
    LET Same(r) == ret = r.ret /\ session = r.s
    IN  /\ Len(calls) = 1
        /\ calls[1].dim = 0
        /\ calls[1].fn = ElemType.compat_parse_elem
        /\ calls[1].opt = ElemType.elem[IPSET_DIM_ONE].opt
        /\ calls[1].str = call.str
        /\ Same(CallParser(ElemType.compat_parse_elem, prev,
                           ElemType.elem[IPSET_DIM_ONE].opt, call.str))

\* C18 (the claim as stated): when ipset_parse_elem is called for a type of
\* dimension one with a string that holds an interior element separator, a
\* compat parser of the type is called exactly once with the whole string and
\* the option of dimension one, its result is returned and no field parser
\* is called; without a compat parser the call fails and no parser is called.
C18_Claim ==
    SeparatorInDimOne
    => IF ElemType.compat_parse_elem # "NULL"
       THEN CompatDelegated
       ELSE ret # 0 /\ calls = <<>>

\* What the code keeps of C18: the claim for the strings that neither begin
\* nor end with the separator.
C18_CodeKeeps ==
    (/\ SeparatorInDimOne
     /\ call.str[1] # IPSET_ELEM_SEPARATOR[1]
     /\ call.str[Len(call.str)] # IPSET_ELEM_SEPARATOR[1])
    => IF ElemType.compat_parse_elem # "NULL"
       THEN CompatDelegated
       ELSE ret # 0 /\ calls = <<>>

\* "a,a," with a type of dimension one that has a compat parser: the field
\* parser of dimension one was called with the whole string.
C18_Witness ==
    /\ SeparatorInDimOne
    /\ ElemType.compat_parse_elem # "NULL"
    /\ call.str = <<"a", ",", "a", ",">>
    /\ Len(calls) = 1
    /\ calls[1].dim = IPSET_DIM_ONE
    /\ calls[1].str = call.str

(***************************************************************************)
(* C19 - optional elements.                                                *)
(***************************************************************************)
\* The parts of the string: one more than its interior separators.
InteriorParts(str) == Cardinality(InteriorSeparators(str)) + 1

FewerParts ==
    /\ ElemCalled
    /\ ElemType.dimension >= IPSET_DIM_TWO
    /\ InteriorParts(call.str) < ElemType.dimension

\* The first k field parsers were invoked in order, up to one that failed,
\* and the call failed only with the failure of a field parser.
FirstInvoked(k) ==
    /\ Len(calls) <= k
    /\ \A i \in 1..Len(calls) :
          /\ calls[i].dim = i
          /\ calls[i].fn = ElemType.elem[i].parse
          /\ i < Len(calls) => calls[i].ret = 0
    /\ IF calls # <<>> /\ calls[Len(calls)].ret # 0
       THEN ret = calls[Len(calls)].ret
       ELSE ret = 0 /\ Len(calls) = k

\* C19 (the claim as stated): with the optional flag, for a type of dimension
\* d >= 2 and a string of k < d parts (k - 1 interior separators),
\* ipset_parse_elem does not fail for the missing element: it invokes the
\* first k field parsers in order and returns success if they all succeed;
\* without the optional flag the same input fails and invokes no field
\* parser.
C19_Claim ==
    FewerParts
    => IF call.arg[1]
       THEN FirstInvoked(InteriorParts(call.str))
       ELSE ret # 0 /\ calls = <<>>

\* What the code keeps of C19: the claim for the strings that neither begin
\* nor end with the separator, and the failure without the optional flag.
C19_CodeKeeps ==
    FewerParts
    => IF call.arg[1]
       THEN (/\ call.str # <<>>
             /\ call.str[1] # IPSET_ELEM_SEPARATOR[1]
             /\ call.str[Len(call.str)] # IPSET_ELEM_SEPARATOR[1])
                => FirstInvoked(InteriorParts(call.str))
       ELSE ret # 0 /\ calls = <<>>

\* "a,a," given as optional to a type of dimension three: two parts, and
\* only the field parser of dimension one was invoked, with the whole string.
C19_Witness ==
    /\ FewerParts
    /\ call.arg[1]
    /\ ElemType.dimension = IPSET_DIM_THREE
    /\ call.str = <<"a", ",", "a", ",">>
    /\ Len(calls) = 1
    /\ calls[1].str = call.str
    /\ ret = 0

(***************************************************************************)
(* C20 - the options a range and a network are written to.                 *)
(***************************************************************************)
AllIpFns == IpFns \cup IpVariantFns

\* The last call parsed the range "A-B", A and B addresses of the family.
RangeParsed ==
    /\ call.fn \in AllIpFns
    /\ ret = 0
    /\ Len(call.arg) = 2
    /\ call.str = Range(call.arg[1], call.arg[2])
    /\ Resolves(call.arg[1], EffectiveFamily(prev))
    /\ Resolves(call.arg[2], EffectiveFamily(prev))

\* The last call parsed the network "A/N", A an address of the family.
NetParsed(n) ==
    /\ call.fn \in AllIpFns
    /\ ret = 0
    /\ Len(call.arg) = 1
    /\ call.str = Cidr(call.arg[1], Dec(n))
    /\ Resolves(call.arg[1], EffectiveFamily(prev))

\* A range is written to opt and IPSET_OPT_IP_TO, a network to opt and the
\* CIDR option paired with it.
PairedWith(opt) ==
    /\ RangeParsed
           => /\ WrittenWith(opt, call.arg[1], EffectiveFamily(prev))
              /\ WrittenWith("IPSET_OPT_IP_TO", call.arg[2],
                             EffectiveFamily(prev))
    /\ \A n \in {24, 32, 128} :
          NetParsed(n)
              => /\ WrittenWith(opt, call.arg[1], EffectiveFamily(prev))
                 /\ session.data.val[IF opt = "IPSET_OPT_IP"
                                     THEN "IPSET_OPT_CIDR"
                                     ELSE "IPSET_OPT_CIDR2"] = <<n>>

\* C20 (the claim as stated): an address parser called with the option opt,
\* IP or IP2, writes the start of a range "A-B" under opt and its end under
\* the "-to" option, and writes the address of a network "A/N" under opt and
\* N under the mask option paired with opt (CIDR for IP, CIDR2 for IP2);
\* ipset_parse_range called with IP2 included.
C20_Claim == call.fn \in AllIpFns => PairedWith(call.opt)

\* What the code keeps of C20: the claim with IPSET_OPT_IP in the place of
\* the option given to ipset_parse_range.
C20_CodeKeeps == call.fn \in AllIpFns => PairedWith(PrimaryOpt)

\* ipset_parse_range called with IP2 on "a-m": the start is under
\* IPSET_OPT_IP and IPSET_OPT_IP2 is not written.
C20_Witness ==
    /\ call.fn = "ipset_parse_range"
    /\ call.opt = "IPSET_OPT_IP2"
    /\ RangeParsed
    /\ WrittenWith("IPSET_OPT_IP", call.arg[1], EffectiveFamily(prev))
    /\ "IPSET_OPT_IP2" \notin session.data.flags

(***************************************************************************)
(* Reference name calls: ipset_parse_before, ipset_parse_after and the     *)
(* compatibility element, several within one command.                      *)
(***************************************************************************)
LongName == [i \in 1..IPSET_MAXNAMELEN |-> "a"]
RefNames == {<<"a">>, <<"b">>, <<>>, LongName}

BeforeCall ==
    /\ \E str \in RefNames :
          Called("ipset_parse_before", "IPSET_OPT_NAMEREF", str, <<str>>,
                 ipset_parse_before(session, "IPSET_OPT_NAMEREF", str))
    /\ calls' = <<>>

AfterCall ==
    /\ \E str \in RefNames :
          Called("ipset_parse_after", "IPSET_OPT_NAMEREF", str, <<str>>,
                 ipset_parse_after(session, "IPSET_OPT_NAMEREF", str))
    /\ calls' = <<>>

NextNameRef ==
    \/ BeforeCall
    \/ AfterCall
    \/ NameCompatCall

SpecNameRef == Init /\ [][NextNameRef]_vars

(***************************************************************************)
(* C21 - a repeated before|after specification.                            *)
(***************************************************************************)
MixedSyntax == "mixed syntax, before|after option already used"

\* The last call was a before|after specification made while the nameref
\* set-bit was already raised.
SecondNameRef ==
    /\ call.fn \in {"ipset_parse_before", "ipset_parse_after",
                    "ipset_parse_name_compat"}
    /\ "IPSET_OPT_NAMEREF" \in prev.data.flags

\* The diagnostic is the first entry the call added to the report.
MixedSyntaxLogged ==
    /\ Len(session.report) > Len(prev.report)
    /\ session.report[Len(prev.report) + 1] = <<"error", MixedSyntax>>

\* The call failed for a reason of its own: a set name that is too long, or
\* a compatibility element of the wrong shape.
OwnFailure ==
    \/ \E i \in 1..Len(call.arg) : check_setname(call.arg[i])
    \/ /\ call.fn = "ipset_parse_name_compat"
       /\ elem_separator(call.str) # NULL
       /\ \/ Len(call.arg) < 3
          \/ call.arg[2] \notin {Str_before, Str_after}

FirstNameRefKept ==
    /\ session.data.val["IPSET_OPT_NAMEREF"]
           = prev.data.val["IPSET_OPT_NAMEREF"]
    /\ session.data.val["IPSET_OPT_BEFORE"]
           = prev.data.val["IPSET_OPT_BEFORE"]
    /\ ("IPSET_OPT_BEFORE" \in session.data.flags)
           = ("IPSET_OPT_BEFORE" \in prev.data.flags)

\* C21 (the claim as stated): a before|after specification made while the
\* nameref set-bit is already raised logs the syntax diagnostic, does not
\* fail for that reason, and keeps the reference name and the before marker
\* of the first specification.
C21_Claim ==
    SecondNameRef
        => /\ MixedSyntaxLogged
           /\ ret # 0 => OwnFailure
           /\ FirstNameRefKept

\* What the code keeps of C21: the diagnostic is logged and the call does
\* not fail because of it.
C21_CodeKeeps ==
    SecondNameRef
        => /\ MixedSyntaxLogged
           /\ ret # 0 => OwnFailure

\* ipset_parse_after("a") and then ipset_parse_after("b"): the second call
\* logged the diagnostic, returned 0 and replaced the reference name.
C21_Witness ==
    /\ SecondNameRef
    /\ call.fn = "ipset_parse_after"
    /\ prev.data.val["IPSET_OPT_NAMEREF"] = <<<<"a">>>>
    /\ MixedSyntaxLogged
    /\ ret = 0
    /\ session.data.val["IPSET_OPT_NAMEREF"] = <<<<"b">>>>

(***************************************************************************)
(* Prefix length calls: "host/len" given to ipset_parse_ip and             *)
(* ipset_parse_net, and len given to ipset_parse_netmask, in either        *)
(* family.                                                                 *)
(***************************************************************************)
PrefixNums == {0, 1, 3, 4, 24, 31, 32, 33, 124, 125, 128, 129, UCHAR_MAX,
               UCHAR_MAX + 1}

NoPrefix == 0 - 1

\* A prefix length string and its value, NoPrefix when it is no length.
PrefixCases ==
    {<<Dec(n), n>> : n \in PrefixNums}
        \cup {<<<<"0", "x", "2", "0">>, 32>>, <<<<"0", "4", "1">>, 33>>,
              <<<<"x">>, NoPrefix>>, <<<<"3", "x">>, NoPrefix>>,
              <<<<"-", "1">>, NoPrefix>>}

PrefixFns == {"ipset_parse_ip", "ipset_parse_net", "ipset_parse_netmask"}

\* arg = <<the value of the length, the host>>
PrefixCall ==
    /\ \E fn \in PrefixFns, h \in {Host_a, Host_x}, c \in PrefixCases :
          LET opt == IF fn = "ipset_parse_netmask" THEN "IPSET_OPT_NETMASK"
                     ELSE "IPSET_OPT_IP"
              str == IF fn = "ipset_parse_netmask" THEN c[1]
                     ELSE Cidr(h, c[1])
          IN  Called(fn, opt, str, <<c[2], h>>,
                     IF fn = "ipset_parse_netmask"
                     THEN ipset_parse_netmask(session, opt, str)
                     ELSE CallParser(fn, session, opt, str))
    /\ calls' = <<>>

NextPrefix == FamilyCall \/ PrefixCall

SpecPrefix == Init /\ [][NextPrefix]_vars

(***************************************************************************)
(* C22 - the bounds of a prefix length follow the family.                  *)
(***************************************************************************)
\* The option is written with the value.
PrefixWritten(opt, value) ==
    /\ session.data.val[opt] = <<value>>
    /\ opt \in session.data.flags

\* The call failed and left the option as it was.
PrefixRejected(opt) ==
    /\ ret # 0
    /\ session.data.val[opt] = prev.data.val[opt]
    /\ (opt \in session.data.flags) = (opt \in prev.data.flags)

CidrBounds(family) == IF family = AF_INET THEN 0..32 ELSE 0..128

NetmaskBounds(family) == IF family = AF_INET THEN 1..31 ELSE 4..124

\* C22: the length after the CIDR separator of an address token is taken
\* (written to the cidr option; the call returns 0 when the host resolves)
\* exactly when it is in 0..32 with family IPv4 and in 0..128 with family
\* IPv6; ipset_parse_netmask takes exactly 1..31 with IPv4 and 4..124 with
\* IPv6, an unspecified family counting as IPv4; every other value fails
\* and leaves the cidr option, or the netmask option, unwritten.
C22_PrefixBounds ==
    /\ call.fn \in {"ipset_parse_ip", "ipset_parse_net"}
           => IF call.arg[1] \in CidrBounds(EffectiveFamily(prev))
              THEN /\ PrefixWritten("IPSET_OPT_CIDR", call.arg[1])
                   /\ call.arg[2] = Host_a => ret = 0
              ELSE PrefixRejected("IPSET_OPT_CIDR")
    /\ call.fn = "ipset_parse_netmask"
           => IF call.arg[1] \in NetmaskBounds(EffectiveFamily(prev))
              THEN ret = 0 /\ PrefixWritten("IPSET_OPT_NETMASK", call.arg[1])
              ELSE PrefixRejected("IPSET_OPT_NETMASK")

\* With family IPv6, ipset_parse_net took "a/128", a length that is refused
\* with family IPv4.
C22_Witness ==
    /\ call.fn = "ipset_parse_net"
    /\ prev.data.family = AF_INET6
    /\ call.arg = <<128, Host_a>>
    /\ ret = 0
    /\ PrefixWritten("IPSET_OPT_CIDR", 128)

(***************************************************************************)
(* C23 - the failures of ipset_parse_elem itself leave the store alone.    *)
(***************************************************************************)
\* The diagnostics ipset_parse_elem raises itself: no type, a missing second
\* or third element, a separator for a type of dimension one without compat
\* parser, too many separators.
ElemErrors ==
    {"Internal error: set type is unknown!",
     "Second element is missing",
     "Third element is missing",
     "Elem separator, but settype supports none",
     "Two elem separators, but settype supports one",
     "Three elem separators, but settype supports two"}

\* The last call was ipset_parse_elem and failed with the diagnostic msg.
ElemFailedWith(msg) ==
    /\ call.fn = "ipset_parse_elem"
    /\ ret # 0
    /\ Len(session.report) > Len(prev.report)
    /\ session.report[Len(session.report)] = <<"error", msg>>

\* C23: when ipset_parse_elem fails with one of its own diagnostics, no
\* field parser was invoked and the attribute store, values and set-bits,
\* is as it was before the call.
C23_OwnFailuresKeepStore ==
    (\E msg \in ElemErrors : ElemFailedWith(msg))
        => /\ calls = <<>>
           /\ session.data = prev.data

\* "a,a,a" given to a type of dimension two whose first field parser would
\* have stored "a": the call failed on the separators and the store is as
\* the type name left it.
C23_Witness ==
    /\ ElemFailedWith("Two elem separators, but settype supports one")
    /\ call.str = <<"a", ",", "a", ",", "a">>
    /\ ElemType.dimension = IPSET_DIM_TWO
    /\ ElemType.elem[IPSET_DIM_ONE].parse = "ipset_parse_setname"
    /\ session.data = prev.data
    /\ "IPSET_OPT_TYPE" \in session.data.flags

(***************************************************************************)
(* C24 - the upper bound of a port range is parsed first.                  *)
(***************************************************************************)
\* The last call was ipset_parse_tcpudp_port on "LO-HI".
TcpudpRangeCalled ==
    /\ call.fn = "ipset_parse_tcpudp_port"
    /\ call.arg.hi # <<>>

PortOptionUntouched ==
    /\ session.data.val["IPSET_OPT_PORT"] = prev.data.val["IPSET_OPT_PORT"]
    /\ ("IPSET_OPT_PORT" \in session.data.flags)
           = ("IPSET_OPT_PORT" \in prev.data.flags)

\* The call failed having written HI under port-to and nothing under port.
OnlyPortToWritten ==
    /\ ret # 0
    /\ session.data.val["IPSET_OPT_PORT_TO"]
           = ValidPort(call.arg.hi, call.arg.proto)
    /\ "IPSET_OPT_PORT_TO" \in session.data.flags
    /\ PortOptionUntouched

\* C24 (the claim as stated): given "LO-HI", an invalid HI makes the call
\* fail with nothing written; a valid HI with an invalid LO makes the call
\* fail with HI stored under port-to and the port option left as it was.
C24_Claim ==
    TcpudpRangeCalled
        => /\ ValidPort(call.arg.hi, call.arg.proto) = <<>>
                  => (ret # 0 /\ session.data = prev.data)
           /\ (/\ ValidPort(call.arg.hi, call.arg.proto) # <<>>
               /\ ValidPort(call.arg.lo, call.arg.proto) = <<>>)
                  => OnlyPortToWritten

\* What the code keeps of C24: the claim for every LO that holds no range
\* separator itself.
C24_CodeKeeps ==
    TcpudpRangeCalled
        => /\ ValidPort(call.arg.hi, call.arg.proto) = <<>>
                  => (ret # 0 /\ session.data = prev.data)
           /\ (/\ ValidPort(call.arg.hi, call.arg.proto) # <<>>
               /\ ValidPort(call.arg.lo, call.arg.proto) = <<>>
               /\ Occurs(PortStr(call.arg.lo), IPSET_RANGE_SEPARATOR[1]) = {})
                  => OnlyPortToWritten

\* "ftp-data-80" with udp, which has no service ftp-data: HI is a valid
\* port, LO is not, and the call failed with port-to unwritten.
C24_Witness ==
    /\ TcpudpRangeCalled
    /\ call.arg.proto = Str_udp
    /\ call.arg.lo = <<Str_ftp_data>>
    /\ call.arg.hi = <<80, "Dec">>
    /\ ret # 0
    /\ session.data.val["IPSET_OPT_PORT_TO"] = <<>>

====
